---- MODULE Spec2Model ----
(***************************************************************************)
(* widget_state: a tree of observable states.                              *)
(*                                                                         *)
(* Leaves (BasicState) hold one value, composites (HigherOrderState,       *)
(* DictState) group named states and forward their notifications upward,   *)
(* computed members are derived from other members.                        *)
(*                                                                         *)
(* The library is single-threaded and synchronous: every public operation  *)
(* runs all the callbacks it triggers before it returns.  One action of    *)
(* the model is therefore one public operation, and the cascade of         *)
(* callbacks is computed by the recursive operators below on a record      *)
(* `st` that holds the heap (one field per attribute of the objects).      *)
(*                                                                         *)
(* The base class State (state.py) is not part of the sources at hand; its *)
(* registry, batch scope and notification rules are modelled from the      *)
(* documentation of the node contract.                                     *)
(***************************************************************************)
EXTENDS Integers, Sequences, FiniteSets, TLC

\* ------------------------------------------------------------------ bounds
MaxNodes == 8
MaxVal == 1
MaxCallbacks == 2
MaxDepth == 2
MaxSteps == 2

Node == 1..MaxNodes
None == 0
Values == 0..MaxVal
NoValue == -1
\* FloatState(value, precision=None)
NoPrecision == -1
CallbackIds == 1..MaxCallbacks

Names == {"a", "b", "sum", "twice", "double", "x", "y", "z", "inner", "items",
          "obj"}
NoMembers == [nm \in Names |-> None]

VARIABLES
  kind,           \* type(obj).__name__ of each object, "free" when not created
  value,          \* BasicState: self.value
  verify_change,  \* BasicState: self._verify_change
  callbacks,      \* State: self._callbacks
  parent,         \* State: self._parent
  active,         \* State: notifications enabled
  enter_count,    \* State: depth of the open `with` scopes
  pending,        \* State: a notification was requested inside a scope
  members,        \* HigherOrderState: the public part of self.__dict__
  labels,         \* DictState: self._labels
  order,          \* HigherOrderState: the public keys of self.__dict__, in order
  list,           \* ListState: self._list
  elem_callbacks, \* ListState: self._elem_obs._callbacks
  precision,      \* FloatState: self._precision
  handles,        \* application: what on_change returned for its callbacks
  emits,          \* states whose notify_change called the callbacks, last operation
  log,            \* invocations of user callbacks made by the last operation
  last,           \* the last operation, its arguments and its outcome
  steps           \* ghost: assignments made and root invocations seen

vars == <<kind, value, verify_change, callbacks, parent, active, enter_count,
          pending, members, labels, order, list, elem_callbacks, precision,
          handles, emits, log, last, steps>>

heap == <<kind, value, verify_change, callbacks, parent, active, enter_count,
          pending, members, labels, order, list, elem_callbacks, precision,
          handles>>

\* The heap at the start of an operation; the operation's log starts empty
\* and no exception is under way.
Cur ==
  [kind |-> kind, value |-> value, verify_change |-> verify_change,
   callbacks |-> callbacks, parent |-> parent, active |-> active,
   enter_count |-> enter_count, pending |-> pending, members |-> members,
   labels |-> labels, order |-> order, list |-> list,
   elem_callbacks |-> elem_callbacks, precision |-> precision,
   handles |-> handles,
   emits |-> <<>>, log |-> <<>>, err |-> ""]

Store(st) ==
  /\ kind' = st.kind
  /\ value' = st.value
  /\ verify_change' = st.verify_change
  /\ callbacks' = st.callbacks
  /\ parent' = st.parent
  /\ active' = st.active
  /\ enter_count' = st.enter_count
  /\ pending' = st.pending
  /\ members' = st.members
  /\ labels' = st.labels
  /\ order' = st.order
  /\ list' = st.list
  /\ elem_callbacks' = st.elem_callbacks
  /\ precision' = st.precision
  /\ handles' = st.handles
  /\ emits' = st.emits
  /\ log' = st.log

Start(st) ==
  /\ kind = st.kind
  /\ value = st.value
  /\ verify_change = st.verify_change
  /\ callbacks = st.callbacks
  /\ parent = st.parent
  /\ active = st.active
  /\ enter_count = st.enter_count
  /\ pending = st.pending
  /\ members = st.members
  /\ labels = st.labels
  /\ order = st.order
  /\ list = st.list
  /\ elem_callbacks = st.elem_callbacks
  /\ precision = st.precision
  /\ handles = st.handles
  /\ emits = <<>>
  /\ log = st.log

\* `old` keeps what the operation found: the values it overwrote.
Op(op, n, name, args, old, err) ==
  [op |-> op, node |-> n, name |-> name, args |-> args, old |-> old,
   err |-> err]

EmptyHeap ==
  [kind |-> [n \in Node |-> "free"],
   value |-> [n \in Node |-> NoValue],
   verify_change |-> [n \in Node |-> FALSE],
   callbacks |-> [n \in Node |-> <<>>],
   parent |-> [n \in Node |-> None],
   active |-> [n \in Node |-> TRUE],
   enter_count |-> [n \in Node |-> 0],
   pending |-> [n \in Node |-> FALSE],
   members |-> [n \in Node |-> NoMembers],
   labels |-> [n \in Node |-> <<>>],
   order |-> [n \in Node |-> <<>>],
   list |-> [n \in Node |-> <<>>],
   elem_callbacks |-> [n \in Node |-> <<>>],
   precision |-> [n \in Node |-> NoPrecision],
   handles |-> [n \in Node |-> [id \in CallbackIds |-> NoValue]],
   emits |-> <<>>, log |-> <<>>, err |-> ""]

\* ------------------------------------------------------------- callbacks
\* A callback is a closure; the record names the code of the closure and
\* what it captured.
UserCb(id) ==
  [type |-> "user", id |-> id, owner |-> None, name |-> "", args |-> <<>>]
\* higher_order_state.py:111   lambda _: self.notify_change()
ForwardCb(c) ==
  [type |-> "forward", id |-> 0, owner |-> c, name |-> "", args |-> <<>>]
\* higher_order_state.py:135   lambda _, _name=...: self._update_computed_state(_name)
UpdateCb(c, name) ==
  [type |-> "update", id |-> 0, owner |-> c, name |-> name, args |-> <<>>]
\* util.py:42   _on_change, which captured computed_value and args
OnChangeCb(target, args) ==
  [type |-> "on_change", id |-> target, owner |-> None, name |-> "", args |-> args]
\* list_state.py:29   self._elem_obs, the _ElementObserver of a ListState
ElemObsCb(l) ==
  [type |-> "elem_obs", id |-> 0, owner |-> l, name |-> "", args |-> <<>>]
\* basic_state.py:131   _callback of transform, which captured other_state
TransformCb(target) ==
  [type |-> "transform", id |-> target, owner |-> None, name |-> "",
   args |-> <<>>]

Leaves == {"IntState", "ObjectState"}
Composites == {"HigherOrderState", "ExampleState", "Sum", "DictState",
               "ChainState", "DoubleState"}

FreeNodes(st) == {n \in Node : st.kind[n] = "free"}
NewNode(st) == CHOOSE n \in FreeNodes(st) : \A m \in FreeNodes(st) : n <= m

RECURSIVE notify_change(_, _, _)
RECURSIVE InvokeAll(_, _, _, _, _)
RECURSIVE Invoke(_, _, _, _)
RECURSIVE BasicSetAttr(_, _, _)
RECURSIVE copy_from(_, _, _)
RECURSIVE _update_computed_state(_, _, _)
RECURSIVE _on_change(_, _)
RECURSIVE HigherSetAttr(_, _, _, _)
RECURSIVE ActivateComputed(_, _, _)
RECURSIVE ElementObserverCall(_, _, _)
RECURSIVE TransformCallback(_, _, _)
RECURSIVE HigherCopyFrom(_, _, _)
RECURSIVE HigherCopyLoop(_, _, _, _)

\* ------------------------------------------------------------ State (base)
\* State.__init__: an empty registry, no parent, notifications enabled.
StateInit(st, n, k) ==
  [st EXCEPT !.kind[n] = k, !.callbacks[n] = <<>>, !.parent[n] = None,
             !.active[n] = TRUE, !.enter_count[n] = 0, !.pending[n] = FALSE,
             !.value[n] = NoValue, !.members[n] = NoMembers, !.labels[n] = <<>>,
             !.order[n] = <<>>, !.list[n] = <<>>, !.elem_callbacks[n] = <<>>,
             !.precision[n] = NoPrecision]

\* State.on_change(callback): appends the callback.
on_change(st, n, cb) == [st EXCEPT !.callbacks[n] = Append(@, cb)]

\* A user callback only observes: the log keeps what it was passed and what
\* it could read at that moment.
Observe(st, id, n, org) ==
  [st EXCEPT !.log = Append(@, [cb |-> id, node |-> n, origin |-> org,
                                 value |-> st.value,
                                 depth |-> st.enter_count,
                                 list |-> st.list])]

\* State.notify_change: nothing when disabled; deferred inside a scope;
\* otherwise every callback, in registration order, with the node itself.
notify_change(st, n, org) ==
  IF ~st.active[n] THEN st
  ELSE IF st.enter_count[n] > 0 THEN [st EXCEPT !.pending[n] = TRUE]
  ELSE InvokeAll([st EXCEPT !.emits = Append(@, n)], st.callbacks[n], 1, n,
                 org)

InvokeAll(st, cbs, i, n, org) ==
  IF i > Len(cbs) THEN st
  ELSE InvokeAll(Invoke(st, cbs[i], n, org), cbs, i + 1, n, org)

Invoke(st, cb, n, org) ==
  CASE cb.type = "user" -> Observe(st, cb.id, n, org)
    [] cb.type = "forward" -> notify_change(st, cb.owner, org)
    [] cb.type = "update" -> _update_computed_state(st, cb.owner, cb.name)
    [] cb.type = "on_change" -> _on_change(st, cb)
    [] cb.type = "elem_obs" -> ElementObserverCall(st, cb.owner, org)
    [] cb.type = "transform" -> TransformCallback(st, cb, n)

\* State.__enter__
Enter(st, n) == [st EXCEPT !.enter_count[n] = @ + 1]

\* State.__exit__: the outermost exit emits once.
Exit(st, n) ==
  LET s1 == [st EXCEPT !.enter_count[n] = @ - 1] IN
  IF s1.enter_count[n] = 0
    THEN notify_change([s1 EXCEPT !.pending[n] = FALSE], n, n)
    ELSE s1

\* ------------------------------------------------------------- BasicState
\* (mutant) the equality check is skipped: every assignment notifies
BasicSetAttr_NoVerify(st, n, new_value) ==
  IF st.value[n] = NoValue
    THEN [st EXCEPT !.value[n] = new_value]
    ELSE notify_change([st EXCEPT !.value[n] = new_value], n, n)

\* (mutant) the callbacks are called before the new value is stored
BasicSetAttr_NotifyFirst(st, n, new_value) ==
  IF st.value[n] = NoValue
    THEN [st EXCEPT !.value[n] = new_value]
    ELSE IF st.verify_change[n] /\ new_value = st.value[n]
      THEN st
      ELSE [notify_change(st, n, n) EXCEPT !.value[n] = new_value]

\* BasicState.__setattr__("value", new_value)
BasicSetAttr(st, n, new_value) ==
  IF st.value[n] = NoValue
    THEN [st EXCEPT !.value[n] = new_value]
    ELSE IF st.verify_change[n] /\ new_value = st.value[n]
      THEN st
      ELSE notify_change([st EXCEPT !.value[n] = new_value], n, n)

\* BasicState.__init__(value, verify_change)
BasicInit(st, n, k, v) ==
  LET s1 == StateInit(st, n, k)
      s2 == [s1 EXCEPT !.verify_change[n] = (k # "ObjectState")]
  IN BasicSetAttr(s2, n, v)

\* A float is a number of units of 10^-Digits: 25 is 2.5 when Digits is 1.
Digits == 1
RECURSIVE Pow10(_)
Pow10(k) == IF k = 0 THEN 1 ELSE 10 * Pow10(k - 1)

\* round(x, ndigits) of Python for x >= 0: the nearest multiple of
\* 10^-ndigits, the even one of the two when x is halfway between them
Round(x, ndigits) ==
  LET unit == Pow10(Digits - ndigits)
      q == x \div unit
      r == x % unit
  IN IF 2 * r > unit \/ (2 * r = unit /\ q % 2 = 1)
       THEN (q + 1) * unit
       ELSE q * unit

\* (mutant) the value as given is compared with the stored one, the rounded
\* one is stored
FloatSetAttr_CompareRaw(st, n, new_value) ==
  LET rounded == IF st.precision[n] # NoPrecision
                   THEN Round(new_value, st.precision[n])
                   ELSE new_value
  IN IF st.value[n] = NoValue THEN [st EXCEPT !.value[n] = rounded]
     ELSE IF new_value = st.value[n] THEN st
     ELSE notify_change([st EXCEPT !.value[n] = rounded], n, n)

\* FloatState.__setattr__("value", new_value)
FloatSetAttr(st, n, new_value) ==
  BasicSetAttr(st, n, IF st.precision[n] # NoPrecision
                        THEN Round(new_value, st.precision[n])
                        ELSE new_value)

\* FloatState.__init__(value, precision)
FloatInit(st, n, v, p) ==
  LET s1 == StateInit(st, n, "FloatState")
      s2 == [s1 EXCEPT !.precision[n] = p, !.verify_change[n] = TRUE]
  IN FloatSetAttr(s2, n, v)

\* copy_from of a leaf: the value of the other leaf is assigned to this one.
copy_from(st, n, v) == BasicSetAttr(st, n, v)

\* --------------------------------------------------------------- computed
\* The @computed members of a class, in the order of inspect.getmembers
\* (sorted by name), their parameters and their functions.
\* ChainState and DoubleState are classes whose computed members depend on
\* a computed member:
\*   ChainState:   sum(self, a, b);  twice(self, sum)
\*   DoubleState:  double(self, sum, x);  sum(self, a, b)
\* In the first the member that waits comes after the one it waits for, in
\* the second before it.
ComputedStates(k) ==
  CASE k = "ExampleState" -> <<"sum">>
    [] k = "ChainState" -> <<"sum", "twice">>
    [] k = "DoubleState" -> <<"double", "sum">>
    [] OTHER -> <<>>
Params(k, name) ==
  CASE name = "twice" -> <<"sum">>
    [] name = "double" -> <<"sum", "x">>
    [] OTHER -> <<"a", "b">>
\* higher_order_state.py:38   IntState(a.value + b.value)
\* util.py / test_util.py:19  FloatState(a.value + b.value)
\* twice:   IntState(2 * sum.value)
\* double:  IntState(2 * sum.value + x.value)
Func(name, vs) ==
  CASE name = "twice" -> 2 * vs[1]
    [] name = "double" -> 2 * vs[1] + vs[2]
    [] OTHER -> vs[1] + vs[2]

\* Names that resolve to something callable on the class (a method).
Methods(k) ==
  CASE k = "ExampleState" -> {"sum"}
    [] k = "Sum" -> {"sum"}
    [] k = "ChainState" -> {"sum", "twice"}
    [] k = "DoubleState" -> {"double", "sum"}
    [] OTHER -> {}

HasAttr(st, c, name) ==
  st.members[c][name] # None \/ name \in Methods(st.kind[c])
\* getattr(self, name) is a State exactly when the name is in __dict__
IsState(st, c, name) == st.members[c][name] # None

ValuesOf(st, ns) == [k \in 1..Len(ns) |-> st.value[ns[k]]]
ParamNodes(st, c, name) ==
  LET ps == Params(st.kind[c], name)
  IN [k \in 1..Len(ps) |-> st.members[c][ps[k]]]

\* HigherOrderState._update_computed_state
_update_computed_state(st, c, name) ==
  copy_from(st, st.members[c][name],
            Func(name, ValuesOf(st, ParamNodes(st, c, name))))

\* util.computed_state.wrapped._on_change
_on_change(st, cb) ==
  BasicSetAttr(st, cb.id, Func("sum", ValuesOf(st, cb.args)))

RECURSIVE RegisterAll(_, _, _, _)
RegisterAll(st, ns, i, cb) ==
  IF i > Len(ns) THEN st
  ELSE RegisterAll(on_change(st, ns[i], cb), ns, i + 1, cb)

\* (mutant) only the first argument is listened to
Wrapped_FirstArg(st, args) ==
  LET new == NewNode(st)
      rest == Tail(args)
      s1 == BasicInit(st, new, "IntState", Func("sum", ValuesOf(st, rest)))
  IN on_change(s1, rest[1], OnChangeCb(new, rest))

\* util.computed_state.wrapped(*args), called as a method: args[0] is self.
\* The state it returns is the new object NewNode(st).
Wrapped(st, args) ==
  LET new == NewNode(st)
      rest == Tail(args)
      s1 == BasicInit(st, new, "IntState", Func("sum", ValuesOf(st, rest)))
  IN RegisterAll(s1, rest, 1, OnChangeCb(new, rest))

\* ------------------------------------------------------- HigherOrderState
\* (mutant) no assertion: a bound name is bound again
CanBind_Always(st, c, name, v) == TRUE

\* (mutant) the state that is already bound to the name is let through
CanBind_SameInstance(st, c, name, v) ==
  ~HasAttr(st, c, name) \/ st.members[c][name] = None
    \/ st.members[c][name] = v

\* The first assertion of HigherOrderState.__setattr__(name, v):
\*   not hasattr(self, name) or callable(getattr(self, name))
\* A bound state is not callable; a method of the class is.
CanBind(st, c, name, v) ==
  ~HasAttr(st, c, name) \/ st.members[c][name] = None

\* (mutant) the computed members are looked at before the name is bound
HigherSetAttr_ActivateFirst(st, c, name, v) ==
  LET s0 == ActivateComputed(st, c, 1)
      s1 == [s0 EXCEPT !.members[c][name] = v, !.parent[v] = c,
                       !.order[c] = Append(@, name)]
  IN on_change(s1, v, ForwardCb(c))

\* (mutant) the parent does not listen to the state it binds
HigherSetAttr_NoForward(st, c, name, v) ==
  ActivateComputed([st EXCEPT !.members[c][name] = v, !.parent[v] = c,
                              !.order[c] = Append(@, name)], c, 1)

\* HigherOrderState.__setattr__(name, value) past its assertions, `v` being
\* the state that is bound.
HigherSetAttr(st, c, name, v) ==
  LET s1 == [st EXCEPT !.members[c][name] = v, !.parent[v] = c,
                       !.order[c] = Append(@, name)]
      s2 == on_change(s1, v, ForwardCb(c))
  IN ActivateComputed(s2, c, 1)

\* (mutant) the recompute callback is registered on the first parameter only
ActivateComputed_FirstParam(st, c, i) ==
  LET names == ComputedStates(st.kind[c]) IN
  IF i > Len(names) THEN st
  ELSE
    LET cname == names[i]
        ps == Params(st.kind[c], cname)
    IN
    IF st.members[c][cname] # None \/ ~(\A k \in 1..Len(ps) : IsState(st, c, ps[k]))
      THEN ActivateComputed(st, c, i + 1)
    ELSE
      LET pn == ParamNodes(st, c, cname)
          s1 == on_change(st, pn[1], UpdateCb(c, cname))
          new == NewNode(s1)
          s2 == BasicInit(s1, new, "IntState", Func(cname, ValuesOf(s1, pn)))
          s3 == HigherSetAttr(s2, c, cname, new)
      IN ActivateComputed(s3, c, i + 1)

\* (mutant) the recompute callback is registered on the parameters that are
\* there while the computed member still waits for another
ActivateComputed_Early(st, c, i) ==
  LET names == ComputedStates(st.kind[c]) IN
  IF i > Len(names) THEN st
  ELSE
    LET cname == names[i]
        ps == Params(st.kind[c], cname)
        pn == ParamNodes(st, c, cname)
    IN
    IF st.members[c][cname] # None THEN ActivateComputed(st, c, i + 1)
    ELSE IF ~(\A k \in 1..Len(ps) : HasAttr(st, c, ps[k]))
      THEN ActivateComputed(st, c, i + 1)
    ELSE IF ~(\A k \in 1..Len(ps) : IsState(st, c, ps[k]))
      THEN ActivateComputed(
             RegisterAll(st, SelectSeq(pn, LAMBDA n : n # None), 1,
                         UpdateCb(c, cname)), c, i + 1)
    ELSE
      LET s1 == RegisterAll(st, pn, 1, UpdateCb(c, cname))
          new == NewNode(s1)
          s2 == BasicInit(s1, new, "IntState", Func(cname, ValuesOf(s1, pn)))
          s3 == HigherSetAttr(s2, c, cname, new)
      IN ActivateComputed(s3, c, i + 1)

\* The loop over self._computed_states.items().
ActivateComputed(st, c, i) ==
  LET names == ComputedStates(st.kind[c]) IN
  IF i > Len(names) THEN st
  ELSE
    LET cname == names[i]
        ps == Params(st.kind[c], cname)
    IN
    IF st.members[c][cname] # None THEN ActivateComputed(st, c, i + 1)
    ELSE IF ~(\A k \in 1..Len(ps) : HasAttr(st, c, ps[k]))
      THEN ActivateComputed(st, c, i + 1)
    ELSE IF ~(\A k \in 1..Len(ps) : IsState(st, c, ps[k]))
      THEN ActivateComputed(st, c, i + 1)
    ELSE
      LET pn == ParamNodes(st, c, cname)
          s1 == RegisterAll(st, pn, 1, UpdateCb(c, cname))
          new == NewNode(s1)
          s2 == BasicInit(s1, new, "IntState", Func(cname, ValuesOf(s1, pn)))
          s3 == HigherSetAttr(s2, c, cname, new)
      IN ActivateComputed(s3, c, i + 1)

\* HigherOrderState.__init__
HigherInit(st, n, k) == StateInit(st, n, k)

\* HigherOrderState.__setattr__(name, value) with a plain value: the value is
\* wrapped into the state of its type (BASIC_STATE_DICT) and then bound.
HigherSetAttrValue(st, c, name, v) ==
  LET new == NewNode(st)
  IN HigherSetAttr(BasicInit(st, new, "IntState", v), c, name, new)

\* -------------------------------------------------------------- DictState
RECURSIVE DictInitLoop(_, _, _, _, _)
DictInitLoop(st, c, lbls, vals, i) ==
  IF i > Len(lbls) THEN st
  ELSE DictInitLoop(HigherSetAttrValue(st, c, lbls[i], vals[i]),
                    c, lbls, vals, i + 1)

\* DictState.__init__(_dict)
DictInit(st, c, lbls, vals) ==
  LET s1 == HigherInit(st, c, "DictState")
      s2 == [s1 EXCEPT !.labels[c] = lbls]
  IN DictInitLoop(s2, c, lbls, vals, 1)

\* DictState.__getitem__
GetItem(st, c, i) == st.members[c][st.labels[c][i]]

\* the body of the loop of DictState.set:  self[i].value = arg
RECURSIVE DictSetLoop(_, _, _, _)
DictSetLoop(st, c, args, i) ==
  IF i > Len(args) THEN st
  ELSE DictSetLoop(BasicSetAttr(st, GetItem(st, c, i), args[i]),
                   c, args, i + 1)

\* (mutant) the assignments are made without the scope
DictSet_NoScope(st, c, args) == DictSetLoop(st, c, args, 1)

\* (mutant) the scope is a flag, not a counter: leaving it always emits
DictSet_FlagScope(st, c, args) ==
  LET s1 == DictSetLoop(Enter(st, c), c, args, 1)
  IN notify_change([s1 EXCEPT !.enter_count[c] = 0, !.pending[c] = FALSE],
                   c, c)

\* DictState.set(*args)
DictSet(st, c, args) ==
  Exit(DictSetLoop(Enter(st, c), c, args, 1), c)

\* -------------------------------------------------------------- transform
\* the function given to transform:  lambda s: IntState(s.value // 2), or
\* lambda s: ObjectState(s.value // 2); this is the value of the state it
\* returns
self_to_other(v) == v \div 2

\* BasicState.transform._callback(_self)
TransformCallback(st, cb, n) ==
  BasicSetAttr(st, cb.id, self_to_other(st.value[n]))

\* (mutant) the new state is made and returned but not kept up to date
Transform_NoCallback(st, n, k) ==
  BasicInit(st, NewNode(st), k, self_to_other(st.value[n]))

\* BasicState.transform(self_to_other), self_to_other making a state of kind
\* k; the state it returns is NewNode(st)
Transform(st, n, k) ==
  LET other_state == NewNode(st)
      s1 == BasicInit(st, other_state, k, self_to_other(st.value[n]))
  IN on_change(s1, n, TransformCb(other_state))

\* -------------------------------------------------------------- ListState
\* list.pop(i) and list.remove(x) of Python, on a sequence
RemoveAt(seq, i) == SubSeq(seq, 1, i - 1) \o SubSeq(seq, i + 1, Len(seq))
IndexOf(seq, x) ==
  IF \E i \in 1..Len(seq) : seq[i] = x
    THEN CHOOSE i \in 1..Len(seq) :
           seq[i] = x /\ \A j \in 1..(i - 1) : seq[j] # x
    ELSE 0
RemoveFirst(seq, x) ==
  IF IndexOf(seq, x) = 0 THEN seq ELSE RemoveAt(seq, IndexOf(seq, x))
InsertAt(seq, i, x) == SubSeq(seq, 1, i) \o <<x>> \o SubSeq(seq, i + 1, Len(seq))
Reversed(seq) == [i \in 1..Len(seq) |-> seq[Len(seq) + 1 - i]]
\* list.sort(key=lambda s: s.value): stable, in ascending order of the key
RECURSIVE InsertSorted(_, _, _)
InsertSorted(val, seq, x) ==
  IF seq = <<>> THEN <<x>>
  ELSE IF val[x] < val[Head(seq)] THEN <<x>> \o seq
  ELSE <<Head(seq)>> \o InsertSorted(val, Tail(seq), x)
RECURSIVE Sorted(_, _)
Sorted(val, seq) ==
  IF seq = <<>> THEN <<>>
  ELSE InsertSorted(val, Sorted(val, SubSeq(seq, 1, Len(seq) - 1)),
                    seq[Len(seq)])

\* State.remove_callback(callback): the first occurrence is removed
remove_callback(st, n, cb) ==
  [st EXCEPT !.callbacks[n] = RemoveFirst(@, cb)]

\* _ElementObserver.__call__:  for cb in self._callbacks: cb(self._list_state)
ElementObserverCall(st, l, org) ==
  InvokeAll(st, st.elem_callbacks[l], 1, l, org)

\* ListState.on_change(callback, element_wise); State.on_change returns the
\* index of the callback in self._callbacks
ListOnChange(st, l, cb, element_wise) ==
  LET s1 == IF element_wise
              THEN [st EXCEPT !.elem_callbacks[l] = Append(@, cb)]
              ELSE st
  IN on_change(s1, l, cb)

\* the rest of ListState.remove_callback, once cb is found
RemoveElementWise(st, l, cb) ==
  IF IndexOf(st.elem_callbacks[l], cb) # 0
    THEN [st EXCEPT !.elem_callbacks[l] = RemoveFirst(@, cb)]
    ELSE st

\* ListState.remove_callback(callback_or_id), an int:
\*   cb = self._callbacks.pop(callback_or_id)
ListRemoveCallbackId(st, l, id) ==
  IF id + 1 > Len(st.callbacks[l]) THEN [st EXCEPT !.err = "IndexError"]
  ELSE LET cb == st.callbacks[l][id + 1] IN
       RemoveElementWise([st EXCEPT !.callbacks[l] = RemoveAt(@, id + 1)],
                         l, cb)

\* ListState.remove_callback(callback_or_id), a callable:
\*   self._callbacks.remove(callback_or_id)
ListRemoveCallback(st, l, cb) ==
  IF IndexOf(st.callbacks[l], cb) = 0 THEN [st EXCEPT !.err = "ValueError"]
  ELSE RemoveElementWise([st EXCEPT !.callbacks[l] = RemoveFirst(@, cb)],
                         l, cb)

\* (mutant) the element is appended without the observer of its changes
ListAppend_NoObserver(st, l, elem) ==
  notify_change([st EXCEPT !.list[l] = Append(@, elem), !.parent[elem] = l],
                l, l)

\* (mutant) the observer of the elements is called when one is appended
ListAppend_Trigger(st, l, elem) ==
  LET s1 == [st EXCEPT !.list[l] = Append(@, elem), !.parent[elem] = l]
      s2 == on_change(s1, elem, ElemObsCb(l))
  IN notify_change(ElementObserverCall(s2, l, elem), l, l)

\* ListState.append(elem)
ListAppend(st, l, elem) ==
  LET s1 == [st EXCEPT !.list[l] = Append(@, elem), !.parent[elem] = l]
      s2 == on_change(s1, elem, ElemObsCb(l))
  IN notify_change(s2, l, l)

\* the loop of ListState.clear
RECURSIVE ListClearLoop(_, _, _)
ListClearLoop(st, l, i) ==
  IF i > Len(st.list[l]) THEN st
  ELSE LET elem == st.list[l][i]
           s1 == remove_callback(st, elem, ElemObsCb(l))
       IN ListClearLoop([s1 EXCEPT !.parent[elem] = None], l, i + 1)

\* ListState.clear()
ListClear(st, l) ==
  notify_change([ListClearLoop(st, l, 1) EXCEPT !.list[l] = <<>>], l, l)

\* the loop of ListState.extend
RECURSIVE ListExtendLoop(_, _, _, _)
ListExtendLoop(st, l, elems, i) ==
  IF i > Len(elems) THEN st
  ELSE ListExtendLoop(ListAppend(st, l, elems[i]), l, elems, i + 1)

\* (mutant) the elements are appended without the scope
ListExtend_NoScope(st, l, elems) == ListExtendLoop(st, l, elems, 1)

\* ListState.extend(_list)
ListExtend(st, l, elems) ==
  Exit(ListExtendLoop(Enter(st, l), l, elems, 1), l)

\* ListState.insert(index, elem), 0 <= index <= len
ListInsert(st, l, index, elem) ==
  LET s1 == [st EXCEPT !.list[l] = InsertAt(@, index, elem),
                       !.parent[elem] = l]
      s2 == on_change(s1, elem, ElemObsCb(l))
  IN notify_change(s2, l, l)

\* ListState.pop(index), 0 <= index; IndexError when there is no such element
ListPop(st, l, index) ==
  IF index + 1 > Len(st.list[l]) THEN [st EXCEPT !.err = "IndexError"]
  ELSE
    LET elem == st.list[l][index + 1]
        s1 == [st EXCEPT !.list[l] = RemoveAt(@, index + 1),
                         !.parent[elem] = None]
    IN notify_change(remove_callback(s1, elem, ElemObsCb(l)), l, l)

\* ListState.remove(elem); ValueError when the element is not in the list
ListRemove(st, l, elem) ==
  IF IndexOf(st.list[l], elem) = 0 THEN [st EXCEPT !.err = "ValueError"]
  ELSE
    LET s1 == [st EXCEPT !.list[l] = RemoveFirst(@, elem),
                         !.parent[elem] = None]
    IN notify_change(remove_callback(s1, elem, ElemObsCb(l)), l, l)

\* ListState.reverse()
ListReverse(st, l) ==
  notify_change([st EXCEPT !.list[l] = Reversed(@)], l, l)

\* ListState.sort(key=lambda s: s.value)
ListSort(st, l) ==
  notify_change([st EXCEPT !.list[l] = Sorted(st.value, @)], l, l)

\* ListState.__init__(_list)
ListInit(st, l, elems) ==
  ListExtend(StateInit(st, l, "ListState"), l, elems)

\* ------------------------------------------------------------------ codec
\* Serializable (types.py): a primitive, a list or a dict with string keys.
\* A dict keeps its keys in insertion order.
Prim(v) == [tag |-> "prim", val |-> v, keys |-> <<>>, items |-> <<>>]
Dict(ks, xs) == [tag |-> "dict", val |-> NoValue, keys |-> ks, items |-> xs]
Lst(xs) == [tag |-> "list", val |-> NoValue, keys |-> <<>>, items |-> xs]
\* serialize() raised NotImplementedError instead of returning
Unserializable ==
  [tag |-> "NotImplementedError", val |-> NoValue, keys |-> <<>>,
   items |-> <<>>]

\* getattr(self, key): the state bound to a public name, the parent for the
\* private attribute _parent (None at the root), a method of the class, or
\* no attribute at all.
Missing == -1
Method == -2
GetAttr(st, c, key) ==
  IF key \in Names
    THEN IF st.members[c][key] # None THEN st.members[c][key]
         ELSE IF key \in Methods(st.kind[c]) THEN Method ELSE Missing
    ELSE IF key = "_parent" THEN st.parent[c] ELSE Missing

RECURSIVE Serialize(_, _)
RECURSIVE SerializeDict(_, _, _)
RECURSIVE SerializeList(_, _, _)
RECURSIVE Deserialize(_, _, _)
RECURSIVE DeserializeLoop(_, _, _, _)

\* (mutant) every key is given the serialized first member
SerializeDict_FirstItem(st, c, i) ==
  IF i > Len(st.order[c]) THEN Dict(<<>>, <<>>)
  ELSE
    LET key == st.order[c][i]
        d == Serialize(st, st.members[c][st.order[c][1]])
        rest == SerializeDict(st, c, i + 1)
    IN IF d.tag = "NotImplementedError" THEN rest
       ELSE Dict(<<key>> \o rest.keys, <<d>> \o rest.items)

\* HigherOrderState.serialize: the members in the order of dict(); a member
\* whose serialize raises NotImplementedError is left out.
SerializeDict(st, c, i) ==
  IF i > Len(st.order[c]) THEN Dict(<<>>, <<>>)
  ELSE
    LET key == st.order[c][i]
        d == Serialize(st, st.members[c][key])
        rest == SerializeDict(st, c, i + 1)
    IN IF d.tag = "NotImplementedError" THEN rest
       ELSE Dict(<<key>> \o rest.keys, <<d>> \o rest.items)

\* ListState.serialize: [value.serialize() for value in self]
SerializeList(st, l, i) ==
  IF i > Len(st.list[l]) THEN Lst(<<>>)
  ELSE
    LET d == Serialize(st, st.list[l][i])
        rest == SerializeList(st, l, i + 1)
    IN IF d.tag = "NotImplementedError" \/ rest.tag = "NotImplementedError"
         THEN Unserializable
         ELSE Lst(<<d>> \o rest.items)

\* serialize() of a state of any kind
Serialize(st, n) ==
  CASE st.kind[n] = "IntState" -> Prim(st.value[n])
    [] st.kind[n] = "ObjectState" -> Unserializable
    [] st.kind[n] = "ListState" -> SerializeList(st, n, 1)
    [] OTHER -> SerializeDict(st, n, 1)

\* (mutant) the leaf is assigned with its notifications left enabled
DeserializeLoop_Loud(st, c, data, i) ==
  IF i > Len(data.keys) \/ st.err # "" THEN st
  ELSE
    LET attr == GetAttr(st, c, data.keys[i])
        v == data.items[i]
    IN
    IF attr \in {Missing, Method, None}
      THEN [st EXCEPT !.err = "AttributeError"]
    ELSE IF st.kind[attr] \in Leaves
      THEN DeserializeLoop(BasicSetAttr(st, attr, v.val), c, data, i + 1)
    ELSE IF st.kind[attr] = "ListState"
      THEN [st EXCEPT !.err = "NotImplementedError"]
    ELSE DeserializeLoop(Deserialize(st, attr, v), c, data, i + 1)

\* the loop of HigherOrderState.deserialize, from the i-th key on; an
\* exception ends it
DeserializeLoop(st, c, data, i) ==
  IF i > Len(data.keys) \/ st.err # "" THEN st
  ELSE
    LET attr == GetAttr(st, c, data.keys[i])
        v == data.items[i]
    IN
    IF attr \in {Missing, Method, None}
      THEN [st EXCEPT !.err = "AttributeError"]
    ELSE IF st.kind[attr] \in Leaves
      THEN LET s1 == [st EXCEPT !.active[attr] = FALSE]
               s2 == BasicSetAttr(s1, attr, v.val)
               s3 == [s2 EXCEPT !.active[attr] = TRUE]
           IN DeserializeLoop(s3, c, data, i + 1)
    ELSE IF st.kind[attr] = "ListState"
      THEN [st EXCEPT !.err = "NotImplementedError"]
    ELSE DeserializeLoop(Deserialize(st, attr, v), c, data, i + 1)

\* HigherOrderState.deserialize(_dict); the `with self` block is left on
\* every path
Deserialize(st, c, data) ==
  IF data.tag # "dict" THEN [st EXCEPT !.err = "AssertionError"]
  ELSE Exit(DeserializeLoop(Enter(st, c), c, data, 1), c)

\* --------------------------------------------------------------- copy_from
\* the loop of HigherOrderState.copy_from over dict_self.items(), from the
\* i-th member on:  value.copy_from(dict_other[key])
HigherCopyLoop(st, c, other, i) ==
  IF i > Len(st.order[c]) \/ st.err # "" THEN st
  ELSE
    LET key == st.order[c][i]
        m == st.members[c][key]
        o == st.members[other][key]
    IN
    IF o = None THEN [st EXCEPT !.err = "KeyError"]
    ELSE IF st.kind[m] \in Leaves
      THEN IF st.kind[o] \in Leaves
             THEN HigherCopyLoop(copy_from(st, m, st.value[o]), c, other, i + 1)
             ELSE [st EXCEPT !.err = "AttributeError"]
    ELSE HigherCopyLoop(HigherCopyFrom(st, m, o), c, other, i + 1)

\* (mutant) the members are copied without the scope
HigherCopyFrom_NoScope(st, c, other) ==
  IF st.kind[c] # st.kind[other] THEN [st EXCEPT !.err = "AssertionError"]
  ELSE HigherCopyLoop(st, c, other, 1)

\* (mutant) no assertion on the type of other
HigherCopyFrom_NoAssert(st, c, other) ==
  Exit(HigherCopyLoop(Enter(st, c), c, other, 1), c)

\* HigherOrderState.copy_from(other)
HigherCopyFrom(st, c, other) ==
  IF st.kind[c] # st.kind[other] THEN [st EXCEPT !.err = "AssertionError"]
  ELSE Exit(HigherCopyLoop(Enter(st, c), c, other, 1), c)

\* ================================================================ actions
\* v = IntState(x) / ObjectState(x) created by the application
NewBasicState(k, v) ==
  /\ FreeNodes(Cur) # {}
  /\ LET n == NewNode(Cur) IN
     /\ Store(BasicInit(Cur, n, k, v))
     /\ last' = Op("new", n, "", <<v>>, <<>>, "")

\* n = FloatState(v, precision=p)
NewFloatState(v, p) ==
  /\ FreeNodes(Cur) # {}
  /\ LET n == NewNode(Cur) IN
     /\ Store(FloatInit(Cur, n, v, p))
     /\ last' = Op("new_float", n, "", <<v, p>>, <<>>, "")

\* n.value = v, n a FloatState
FloatSetValue(n, v) ==
  /\ kind[n] = "FloatState"
  /\ Store(FloatSetAttr(Cur, n, v))
  /\ last' = Op("set_float", n, "", <<v>>, <<value[n]>>, "")

\* n.on_change(callback)
OnChange(n, id) ==
  /\ kind[n] # "free"
  /\ \A k \in 1..Len(callbacks[n]) : callbacks[n][k] # UserCb(id)
  /\ Store(on_change(Cur, n, UserCb(id)))
  /\ last' = Op("on_change", n, "", <<id>>, <<>>, "")

\* n.value = v
SetValue(n, v) ==
  /\ kind[n] \in Leaves
  /\ Store(BasicSetAttr(Cur, n, v))
  /\ last' = Op("set", n, "", <<v>>, <<value[n]>>, "")

\* with n:  (the application opens a scope)
EnterScope(n) ==
  /\ kind[n] # "free"
  /\ enter_count[n] < MaxDepth
  /\ Store(Enter(Cur, n))
  /\ last' = Op("enter", n, "", <<>>, <<enter_count[n]>>, "")

\* the end of a `with n:` block of the application
ExitScope(n) ==
  /\ enter_count[n] > 0
  /\ Store(Exit(Cur, n))
  /\ last' = Op("exit", n, "", <<>>, <<enter_count[n]>>, "")

\* c.set(*args)
DictStateSet(c, args) ==
  /\ kind[c] = "DictState"
  /\ Len(args) = Len(labels[c])
  /\ Store(DictSet(Cur, c, args))
  /\ last' = Op("dict_set", c, "", args,
                [i \in 1..Len(args) |-> value[GetItem(Cur, c, i)]], "")

\* c.name = v, v a plain value
BindValue(c, name, v) ==
  /\ kind[c] \in Composites
  /\ Cardinality(FreeNodes(Cur)) >= 2
  /\ IF CanBind(Cur, c, name, None)
       THEN /\ Store(HigherSetAttrValue(Cur, c, name, v))
            /\ last' = Op("bind", c, name, <<v>>, <<>>, "")
       ELSE /\ UNCHANGED heap
            /\ log' = <<>> /\ emits' = <<>>
            /\ last' = Op("bind", c, name, <<v>>, <<>>, "AssertionError")

\* c.name = n, n a state
BindState(c, name, n) ==
  /\ kind[c] \in Composites
  /\ kind[n] # "free"
  /\ Cardinality(FreeNodes(Cur)) >= 1
  /\ IF CanBind(Cur, c, name, n)
       THEN /\ Store(HigherSetAttr(Cur, c, name, n))
            /\ last' = Op("bind_state", c, name, <<n>>, <<>>, "")
       ELSE /\ UNCHANGED heap
            /\ log' = <<>> /\ emits' = <<>>
            /\ last' = Op("bind_state", c, name, <<n>>, <<>>,
                          "AssertionError")

\* c.deserialize(data); `name` tells what the keys of data are: "" when
\* every key names a member, otherwise the key that does not
DeserializeOp(c, data, name) ==
  /\ kind[c] \in Composites
  /\ LET st == Deserialize(Cur, c, data) IN
     /\ Store(st)
     /\ last' = Op("deserialize", c, name, data, <<>>, st.err)

\* other = n.transform(lambda s: IntState(s.value // 2)), or ObjectState
TransformOp(n, k) ==
  /\ kind[n] \in Leaves
  /\ FreeNodes(Cur) # {}
  /\ Store(Transform(Cur, n, k))
  /\ last' = Op("transform", n, k, <<NewNode(Cur)>>, <<value[n]>>, "")

\* a handle the application has used
Spent == -2

\* h = l.on_change(callback, element_wise=...); the application keeps h
ListStateOnChange(l, id, element_wise) ==
  /\ kind[l] = "ListState"
  /\ handles[l][id] = NoValue
  /\ LET st == ListOnChange(Cur, l, UserCb(id), element_wise) IN
     Store([st EXCEPT !.handles[l][id] = Len(st.callbacks[l]) - 1])
  /\ last' = Op("on_change", l, IF element_wise THEN "element_wise" ELSE "",
                <<id>>, <<>>, "")

\* l.remove_callback(h), h the handle on_change returned for callback id
ListStateRemoveCallbackId(l, id) ==
  /\ kind[l] = "ListState"
  /\ handles[l][id] \notin {NoValue, Spent}
  /\ LET st == ListRemoveCallbackId(Cur, l, handles[l][id]) IN
     /\ Store([st EXCEPT !.handles[l][id] = Spent])
     /\ last' = Op("remove_callback", l, "id", <<id>>, <<handles[l][id]>>,
                   st.err)

\* l.remove_callback(callback)
ListStateRemoveCallback(l, id) ==
  /\ kind[l] = "ListState"
  /\ handles[l][id] \notin {NoValue, Spent}
  /\ LET st == ListRemoveCallback(Cur, l, UserCb(id)) IN
     /\ Store([st EXCEPT !.handles[l][id] = Spent])
     /\ last' = Op("remove_callback", l, "callback", <<id>>, <<>>, st.err)

\* a call of a method of the list l, st being the heap it leaves
ListCall(op, l, args, st) ==
  /\ kind[l] = "ListState"
  /\ Store(st)
  /\ last' = Op(op, l, "", args, list[l], st.err)

ListStateAppend(l, elem) ==
  ListCall("append", l, <<elem>>, ListAppend(Cur, l, elem))
ListStateInsert(l, index, elem) ==
  ListCall("insert", l, <<index, elem>>, ListInsert(Cur, l, index, elem))
ListStateExtend(l, elems) ==
  ListCall("extend", l, elems, ListExtend(Cur, l, elems))
ListStatePop(l, index) ==
  ListCall("pop", l, <<index>>, ListPop(Cur, l, index))
ListStateRemove(l, elem) ==
  ListCall("remove", l, <<elem>>, ListRemove(Cur, l, elem))
ListStateClear(l) == ListCall("clear", l, <<>>, ListClear(Cur, l))
ListStateReverse(l) == ListCall("reverse", l, <<>>, ListReverse(Cur, l))
ListStateSort(l) == ListCall("sort", l, <<>>, ListSort(Cur, l))

\* l = ListState(elems)
NewListState(elems) ==
  /\ FreeNodes(Cur) # {}
  /\ Store(ListInit(Cur, NewNode(Cur), elems))
  /\ last' = Op("new_list", NewNode(Cur), "", elems, <<>>, "")

\* c.deserialize(c.serialize())
RoundTrip(c) ==
  /\ kind[c] \in Composites
  /\ LET data == Serialize(Cur, c)
         st == Deserialize(Cur, c, data)
     IN /\ Store(st)
        /\ last' = Op("round_trip", c, "", data, <<>>, st.err)

\* c.copy_from(other)
CopyFrom(c, other) ==
  /\ kind[c] \in Composites /\ kind[other] \in Composites
  /\ LET st == HigherCopyFrom(Cur, c, other) IN
     /\ Store(st)
     /\ last' = Op("copy_from", c, "", <<other>>, <<>>, st.err)

\* The user callbacks of a node, in registration order.
Listeners(cbs) == SelectSeq(cbs, LAMBDA cb : cb.type = "user")
\* The part of a log that belongs to the callbacks of node n.
LogOf(lg, n) == SelectSeq(lg, LAMBDA e : e.node = n)
\* The log shows each listener of n once, in registration order.
EachOnce(lg, cbs, n) ==
  LET mine == LogOf(lg, n)
      ls == Listeners(cbs)
  IN /\ Len(mine) = Len(ls)
     /\ \A k \in 1..Len(ls) : mine[k].cb = ls[k].id

\* ------------------------------------------------------------ leaf alone
LeafNodes == {1}

InitLeaf ==
  /\ Start(EmptyHeap)
  /\ last = Op("init", None, "", <<>>, <<>>, "")
  /\ steps = 0

NextLeaf ==
  \/ \E k \in Leaves, v \in Values :
       /\ FreeNodes(Cur) # {} /\ NewNode(Cur) \in LeafNodes
       /\ NewBasicState(k, v)
       /\ UNCHANGED steps
  \/ \E n \in Node, id \in CallbackIds : OnChange(n, id) /\ UNCHANGED steps
  \/ \E n \in Node, v \in Values : SetValue(n, v) /\ UNCHANGED steps
  \/ \E n \in Node : EnterScope(n) /\ UNCHANGED steps
  \/ \E n \in Node : ExitScope(n) /\ UNCHANGED steps

SpecLeaf == InitLeaf /\ [][NextLeaf]_vars

\* C1: a leaf that verifies changes.  Assigning the current value changes
\* nothing and invokes no callback; assigning another value, outside a scope
\* and with notifications enabled, stores it and invokes every registered
\* callback once, in registration order, each reading the new value.  The
\* assignment made by the constructor invokes no callback.
C1_Step ==
  /\ (last'.op = "set" /\ verify_change[last'.node]) =>
       LET n == last'.node
           v == last'.args[1]
       IN IF v = value[n]
            THEN UNCHANGED heap /\ log' = <<>>
            ELSE /\ value' = [value EXCEPT ![n] = v]
                 /\ (enter_count[n] = 0 /\ active[n]) =>
                       /\ Len(log') = Len(callbacks[n])
                       /\ EachOnce(log', callbacks[n], n)
                       /\ \A k \in 1..Len(log') : log'[k].value[n] = v
  /\ last'.op = "new" => log' = <<>> /\ value'[last'.node] = last'.args[1]
C1_EqualitySuppression == [][C1_Step]_vars

C1_Witness ==
  /\ last.op = "set" /\ verify_change[last.node]
  /\ last.old # last.args
  /\ Len(log) = 2 /\ log[1].cb = 2 /\ log[2].cb = 1

\* ------------------------------------------------------------- DictState
\* VectorState(x, y, z) of test_dict_state.py: a DictState of three ints.
DictNode == 1
DictLabels == <<"x", "y", "z">>

InitDict ==
  /\ \E vals \in [1..Len(DictLabels) -> Values] :
       Start(DictInit(EmptyHeap, DictNode, DictLabels, vals))
  /\ last = Op("init", None, "", <<>>, <<>>, "")
  /\ steps = 0

NextDict ==
  \/ \E id \in CallbackIds : OnChange(DictNode, id) /\ UNCHANGED steps
  \/ \E args \in [1..Len(DictLabels) -> Values] :
       DictStateSet(DictNode, args) /\ UNCHANGED steps
  \/ \E n \in Node, v \in Values :
       parent[n] = DictNode /\ SetValue(n, v) /\ UNCHANGED steps
  \/ EnterScope(DictNode) /\ UNCHANGED steps
  \/ ExitScope(DictNode) /\ UNCHANGED steps

SpecDict == InitDict /\ [][NextDict]_vars

Changed(ol, new) == {i \in 1..Len(new) : new[i] # ol[i]}

\* C2: DictState.set with at least one argument that differs from the value
\* of its member leaves the i-th member with the i-th argument and, called
\* outside a scope, invokes every listener of the composite exactly once,
\* whatever the number of members that changed; the listeners run after the
\* scope is left and read all the new values.  No listener of a composite
\* is invoked by a step that leaves a scope of the composite open.
C2_Step ==
  /\ last'.op = "dict_set" =>
       LET c == last'.node
           args == last'.args
           n == Len(args)
       IN Changed(last'.old, args) # {} =>
            /\ \A i \in 1..n : value'[GetItem(Cur, c, i)] = args[i]
            /\ (enter_count[c] = 0 /\ active[c]) =>
                 /\ EachOnce(log', callbacks[c], c)
                 /\ \A k \in 1..Len(log') :
                      log'[k].node = c =>
                        /\ log'[k].depth[c] = 0
                        /\ \A i \in 1..n :
                             log'[k].value[GetItem(Cur, c, i)] = args[i]
  /\ \A c \in Node : enter_count'[c] > 0 => LogOf(log', c) = <<>>
C2_BatchExactness == [][C2_Step]_vars

C2_Witness ==
  /\ last.op = "dict_set"
  /\ Changed(last.old, last.args) = 1..3
  /\ Len(log) = 2 /\ log[1].cb = 2 /\ log[2].cb = 1

\* C3: scopes on one node nest.  The depth never becomes negative; no
\* listener of the node is invoked while a scope is open, so not by an inner
\* exit either; DictState.set called inside a scope leaves the depth as it
\* found it; the outermost exit invokes every listener exactly once and
\* clears the request; a notification requested inside a scope stays
\* requested until the outermost exit.
C3_Step ==
  \A c \in Node :
    /\ enter_count'[c] >= 0
    /\ enter_count'[c] > 0 => LogOf(log', c) = <<>>
    /\ (last'.op = "dict_set" /\ last'.node = c) =>
         enter_count'[c] = enter_count[c]
    /\ (last'.op = "exit" /\ last'.node = c /\ enter_count'[c] = 0) =>
         /\ EachOnce(log', callbacks[c], c)
         /\ \A k \in 1..Len(log') : log'[k].depth[c] = 0
    /\ enter_count'[c] = 0 => ~pending'[c]
    /\ (enter_count[c] > 0 /\ enter_count'[c] > 0) =>
         /\ pending[c] => pending'[c]
         /\ (\E n \in Node : parent[n] = c /\ value'[n] # value[n]) =>
              pending'[c]
C3_NestedScopes == [][C3_Step]_vars

\* DictState.set inside MaxDepth open scopes: its own exit is an inner one,
\* the listeners wait and the request is kept
C3_Witness ==
  /\ last.op = "dict_set" /\ Changed(last.old, last.args) # {}
  /\ enter_count[DictNode] = MaxDepth /\ pending[DictNode]
  /\ Len(Listeners(callbacks[DictNode])) = 2
  /\ log = <<>>

\* ---------------------------------------------------------- ExampleState
\* The class of the docstring of `computed`: members a and b, and the
\* computed member sum(a, b).  Here the members are bound one by one.
ExNode == 1
ExNames == {"a", "b"}
\* the leaves that belong to nobody
Spare == {n \in Node : kind[n] \in Leaves /\ parent[n] = None}

InitBind ==
  /\ Start(HigherInit(EmptyHeap, ExNode, "ExampleState"))
  /\ last = Op("init", None, "", <<>>, <<>>, "")
  /\ steps = 0

NextBind ==
  \/ \E v \in Values :
       Spare = {} /\ NewBasicState("IntState", v) /\ UNCHANGED steps
  \/ \E name \in ExNames \cup {"sum"}, v \in Values :
       /\ name = "sum" => members[ExNode][name] # None
       /\ BindValue(ExNode, name, v)
       /\ UNCHANGED steps
  \/ \E name \in ExNames \cup {"sum"}, n \in Node :
       /\ name = "sum" => members[ExNode][name] # None
       /\ n \in Spare \/ n = members[ExNode][name]
       /\ BindState(ExNode, name, n)
       /\ UNCHANGED steps
  \/ \E n \in Node, v \in Values : SetValue(n, v) /\ UNCHANGED steps
  \/ OnChange(ExNode, 1) /\ UNCHANGED steps

SpecBind == InitBind /\ [][NextBind]_vars

\* ExampleState.__init__ of the docstring:  self.a = ...; self.b = ...
ExampleInit(st, c, va, vb) ==
  LET s1 == HigherInit(st, c, "ExampleState")
      s2 == HigherSetAttrValue(s1, c, "a", va)
  IN HigherSetAttrValue(s2, c, "b", vb)

InitComputed ==
  /\ \E va \in Values, vb \in Values :
       Start(ExampleInit(EmptyHeap, ExNode, va, vb))
  /\ last = Op("init", None, "", <<>>, <<>>, "")
  /\ steps = 0

NextComputed ==
  \/ \E n \in Node, v \in Values : SetValue(n, v) /\ UNCHANGED steps
  \/ \E id \in CallbackIds : OnChange(ExNode, id) /\ UNCHANGED steps
  \/ EnterScope(ExNode) /\ UNCHANGED steps
  \/ ExitScope(ExNode) /\ UNCHANGED steps

SpecComputed == InitComputed /\ [][NextComputed]_vars

Activated(mem, c, name) == mem[c][name] # None
SumOf(val, mem, c) == Func("sum", <<val[mem[c]["a"]], val[mem[c]["b"]]>>)

\* what a log shows of the invocations: the callback and the leaf whose
\* change it reports
Proj(lg) == [k \in 1..Len(lg) |-> <<lg[k].cb, lg[k].origin>>]
Expect(ls, org) == [k \in 1..Len(ls) |-> <<ls[k].id, org>>]
Forwards(cbs, c) == {k \in 1..Len(cbs) : cbs[k] = ForwardCb(c)}

\* C5: the computed member sum(a, b) is a bound state exactly when a and b
\* are both bound, in whichever order they were bound; the step that
\* activates it is the successful binding of a or b, and it binds a new
\* state whose value is f of the values of the states bound to a and b.
C5_Step ==
  LET c == ExNode IN
  /\ Activated(members', c, "sum") <=>
       (members'[c]["a"] # None /\ members'[c]["b"] # None)
  /\ (~Activated(members, c, "sum") /\ Activated(members', c, "sum")) =>
       LET s == members'[c]["sum"] IN
       /\ last'.op \in {"bind", "bind_state"}
       /\ last'.name \in ExNames /\ last'.err = ""
       /\ kind[s] = "free" /\ kind'[s] = "IntState"
       /\ parent'[s] = c
       /\ value'[s] = SumOf(value', members', c)
C5_ActivationOrder == [][C5_Step]_vars

\* b was bound first, a last: the binding of a activated sum
C5_Witness ==
  /\ last.op = "bind_state" /\ last.name = "a" /\ last.err = ""
  /\ Activated(members, ExNode, "sum")
  /\ value[members[ExNode]["sum"]] = 2 * MaxVal

\* C6: once sum is activated the name sum keeps the state it was bound to,
\* and when an assignment that changes a or b has returned, the value of
\* that state is f of the values of a and b.
C6_Step ==
  LET c == ExNode IN
  Activated(members, c, "sum") =>
    /\ members'[c]["sum"] = members[c]["sum"]
    /\ (/\ last'.op = "set"
        /\ last'.node \in {members[c]["a"], members[c]["b"]}
        /\ value'[last'.node] # value[last'.node]) =>
         value'[members[c]["sum"]] = SumOf(value', members', c)
C6_RecomputedInPlace == [][C6_Step]_vars

C6_Witness ==
  /\ last.op = "set" /\ last.node = members[ExNode]["b"]
  /\ last.old # last.args
  /\ value[members[ExNode]["sum"]] = SumOf(value, members, ExNode)
  /\ value[members[ExNode]["sum"]] > 0

\* an assignment that changes a parameter of sum, the composite being
\* outside any scope
ParamChange(c) ==
  /\ last'.op = "set"
  /\ last'.node \in {members[c]["a"], members[c]["b"]}
  /\ value'[last'.node] # value[last'.node]
  /\ enter_count[c] = 0 /\ active[c]

\* C7 as claimed: a change of a or b invokes every listener of the
\* composite exactly once.
C7_Original_Step ==
  ParamChange(ExNode) => EachOnce(log', callbacks[ExNode], ExNode)
C7_Original == [][C7_Original_Step]_vars

\* C7 as amended: a change of a or b notifies the composite once for the
\* parameter and, when f of the new values differs from the value sum held,
\* once more for sum: the listeners run once, in order, reporting the
\* parameter, and then once more, in order, reporting sum.
C7_Step ==
  LET c == ExNode
      s == members[c]["sum"]
      ls == Listeners(callbacks[c])
  IN ParamChange(c) =>
       Proj(LogOf(log', c)) =
         Expect(ls, last'.node) \o
           (IF SumOf(value', members', c) # value[s]
              THEN Expect(ls, s) ELSE <<>>)
C7_NotifiedPerChange == [][C7_Step]_vars

C7_Witness ==
  /\ last.op = "set" /\ last.node = members[ExNode]["a"]
  /\ Proj(log) = <<<<2, last.node>>, <<1, last.node>>,
                   <<2, members[ExNode]["sum"]>>,
                   <<1, members[ExNode]["sum"]>>>>

\* a name of the composite that is bound is bound again, to a plain value
\* or to another state
Rebind ==
  /\ last'.op \in {"bind", "bind_state"}
  /\ members[last'.node][last'.name] # None
  /\ last'.op = "bind_state" =>
       last'.args[1] # members[last'.node][last'.name]

\* C9: binding a bound name to another state or to a plain value fails, and
\* leaves everything as it was: the binding, the parent and the callbacks
\* of every state, the computed members; no callback is invoked.
C9_Step ==
  Rebind => /\ last'.err = "AssertionError"
            /\ UNCHANGED heap
            /\ log' = <<>>
C9_IllegalRebind == [][C9_Step]_vars

C9_Witness ==
  /\ last.op = "bind_state" /\ last.err = "AssertionError"
  /\ last.args[1] # members[ExNode][last.name]
  /\ last.name = "sum"
  /\ Listeners(callbacks[ExNode]) # <<>>

\* the state bound to a name is assigned to that name again
SameInstance ==
  /\ last'.op = "bind_state"
  /\ last'.args[1] = members[last'.node][last'.name]

\* C10 as claimed: assigning to a name the state it is bound to does not
\* fail and changes neither the binding nor the callbacks.
C10_Original_Step ==
  SameInstance => /\ last'.err = ""
                  /\ members' = members
                  /\ callbacks' = callbacks
C10_Original == [][C10_Original_Step]_vars

\* C10 as amended: assigning to a name the state it is bound to fails like
\* any other rebinding; the binding is unchanged and the state keeps exactly
\* one forwarding listener of the composite.
C10_Step ==
  SameInstance =>
    /\ last'.err = "AssertionError"
    /\ UNCHANGED heap
    /\ log' = <<>>
    /\ Cardinality(Forwards(callbacks'[last'.args[1]], last'.node)) = 1
C10_SameInstanceRejected == [][C10_Step]_vars

C10_Witness ==
  /\ last.op = "bind_state" /\ last.err = "AssertionError"
  /\ last.args[1] = members[ExNode][last.name]
  /\ last.name = "a"

\* ------------------------------------------------------------------ tree
\* Three composites deep, as the fixture of test_higher_state.py builds its
\* state (a composite is bound first and filled afterwards), the innermost
\* being an ExampleState:
\*   root { inner: { y, inner: ExampleState { a, b, sum } } }
TreeInit(st, vy, va, vb) ==
  LET root == NewNode(st)
      s1 == HigherInit(st, root, "HigherOrderState")
      mid == NewNode(s1)
      s2 == HigherSetAttr(HigherInit(s1, mid, "HigherOrderState"),
                          root, "inner", mid)
      s3 == HigherSetAttrValue(s2, mid, "y", vy)
      low == NewNode(s3)
      s4 == HigherSetAttr(HigherInit(s3, low, "ExampleState"),
                          mid, "inner", low)
      s5 == HigherSetAttrValue(s4, low, "a", va)
  IN HigherSetAttrValue(s5, low, "b", vb)

TreeRoot == 1
TreeMid == members[TreeRoot]["inner"]
TreeLow == members[TreeMid]["inner"]

RECURSIVE Ancestors(_, _)
Ancestors(par, n) ==
  IF par[n] = None THEN {} ELSE {par[n]} \cup Ancestors(par, par[n])

Quiet == \A n \in Node : enter_count[n] = 0 /\ active[n]

\* the leaves whose value a step changes
ChangedLeaves == {m \in Node : value'[m] # value[m]}
\* the invocations of listener id of node n that report leaf m
Reports(lg, n, id, m) ==
  {k \in 1..Len(lg) : lg[k].node = n /\ lg[k].cb = id /\ lg[k].origin = m}

\* the test registers its callback on the root right after the fixture
InitTree ==
  /\ \E vy \in Values, va \in Values, vb \in Values :
       Start(on_change(TreeInit(EmptyHeap, vy, va, vb), TreeRoot, UserCb(1)))
  /\ last = Op("init", None, "", <<>>, <<>>, "")
  /\ steps = [muts |-> 0, calls |-> 0]

\* steps counts the changes of leaves made while no scope is open and the
\* invocations of the root's first callback these changes caused
Count ==
  steps' = IF Quiet
             THEN [muts |-> steps.muts + Cardinality(ChangedLeaves),
                   calls |-> steps.calls + Cardinality(
                     {k \in 1..Len(log') : log'[k].node = TreeRoot
                                             /\ log'[k].cb = 1})]
             ELSE steps

NextTree ==
  \/ \E n \in Node, v \in Values :
       /\ n # members[TreeLow]["sum"]
       /\ Quiet => steps.muts < MaxSteps
       /\ SetValue(n, v)
       /\ Count
  \/ \E id \in CallbackIds : OnChange(TreeRoot, id) /\ UNCHANGED steps
  \/ \E n \in {TreeMid, TreeLow} : OnChange(n, 1) /\ UNCHANGED steps
  \/ enter_count[TreeMid] = 0 /\ EnterScope(TreeMid) /\ UNCHANGED steps
  \/ ExitScope(TreeMid) /\ UNCHANGED steps

SpecTree == InitTree /\ [][NextTree]_vars

\* C4: every change of the value of a leaf made while no scope is open
\* invokes each callback of each composite above the leaf (the root and the
\* composites between) exactly once, and no callback of another composite;
\* so the root's callback has been invoked as often as leaves were changed.
\* The change of a computed leaf that follows the change of its parameter
\* is a change of a leaf like any other.
C4_Step ==
  /\ (last'.op = "set" /\ Quiet) =>
       \A n \in Node, m \in Node :
         \A k \in 1..Len(callbacks[n]) :
           callbacks[n][k].type = "user" =>
             Cardinality(Reports(log', n, callbacks[n][k].id, m)) =
               IF m \in ChangedLeaves /\ n \in Ancestors(parent, m)
                 THEN 1 ELSE 0
  /\ steps'.calls = steps'.muts
C4_UpwardPropagation == [][C4_Step]_vars

C4_Witness ==
  /\ last.op = "set" /\ last.node = members[TreeLow]["a"]
  /\ Len(LogOf(log, TreeRoot)) = 4
  /\ Len(LogOf(log, TreeMid)) = 2
  /\ steps.muts = MaxSteps

\* ------------------------------------------------------------------- Sum
\* The class Sum of test_util.py, whose sum is made by the decorator
\* computed_state.  Sum.__init__:
\*   self.a = 0.5; self.b = 2.0; self.sum = self.sum(self.a, self.b)
SumInit(st, c, va, vb) ==
  LET s1 == HigherInit(st, c, "Sum")
      s2 == HigherSetAttrValue(s1, c, "a", va)
      s3 == HigherSetAttrValue(s2, c, "b", vb)
      new == NewNode(s3)
      s4 == Wrapped(s3, <<c, s3.members[c]["a"], s3.members[c]["b"]>>)
  IN HigherSetAttr(s4, c, "sum", new)

SumNode == 1

InitSum ==
  /\ \E va \in Values, vb \in Values :
       Start(SumInit(EmptyHeap, SumNode, va, vb))
  /\ last = Op("init", None, "", <<>>, <<>>, "")
  /\ steps = 0

NextSum ==
  \/ \E n \in Node, v \in Values : SetValue(n, v) /\ UNCHANGED steps
  \/ \E id \in CallbackIds : OnChange(SumNode, id) /\ UNCHANGED steps
  \/ EnterScope(SumNode) /\ UNCHANGED steps
  \/ ExitScope(SumNode) /\ UNCHANGED steps

SpecSum == InitSum /\ [][NextSum]_vars

\* C8: with sum made by computed_state from a and b, an assignment that
\* changes a or b, and with it the sum, invokes every callback of the
\* composite exactly twice: all of them for the parameter first, then all of
\* them for sum; when the assignment returns, sum is a + b.
C8_Step ==
  LET c == SumNode
      s == members[c]["sum"]
      ls == Listeners(callbacks[c])
  IN (ParamChange(c) /\ SumOf(value', members', c) # value[s]) =>
       /\ Proj(LogOf(log', c)) = Expect(ls, last'.node) \o Expect(ls, s)
       /\ \A k \in 1..Len(ls) :
            /\ Cardinality(Reports(log', c, ls[k].id, last'.node)) = 1
            /\ Cardinality(Reports(log', c, ls[k].id, s)) = 1
       /\ value'[s] = value'[members[c]["a"]] + value'[members[c]["b"]]
C8_ComputedStateTwice == [][C8_Step]_vars

C8_Witness ==
  /\ last.op = "set" /\ last.node = members[SumNode]["b"]
  /\ kind[SumNode] = "Sum"
  /\ Proj(log) = <<<<1, last.node>>, <<2, last.node>>,
                   <<1, members[SumNode]["sum"]>>,
                   <<2, members[SumNode]["sum"]>>>>
  /\ value[members[SumNode]["sum"]] = 2 * MaxVal

\* ----------------------------------------------------------------- codec
\* The data given to a composite: a dict over some of the members it was
\* given by assignment, in their order, with the least or the greatest value
\* for a leaf and such a dict for a composite.
DataValues == {0, MaxVal}
RECURSIVE DataFrom(_, _, _)
DataFrom(st, c, i) ==
  IF i > Len(st.order[c]) THEN {Dict(<<>>, <<>>)}
  ELSE
    LET key == st.order[c][i]
        m == st.members[c][key]
        rest == DataFrom(st, c, i + 1)
        opts == IF st.kind[m] \in Leaves THEN {Prim(v) : v \in DataValues}
                ELSE DataFrom(st, m, 1)
    IN IF key \in Methods(st.kind[c]) THEN rest
       ELSE rest \cup {Dict(<<key>> \o r.keys, <<d>> \o r.items) :
                         r \in rest, d \in opts}

\* the tree of the fixture with callbacks on the root, on the composite in
\* the middle and on two leaves
InitCodec ==
  /\ \E vy \in Values, va \in Values, vb \in Values :
       LET s0 == TreeInit(EmptyHeap, vy, va, vb)
           mid == s0.members[TreeRoot]["inner"]
           low == s0.members[mid]["inner"]
           s1 == on_change(on_change(s0, TreeRoot, UserCb(1)),
                           TreeRoot, UserCb(2))
           s2 == on_change(s1, mid, UserCb(1))
           s3 == on_change(s2, s0.members[mid]["y"], UserCb(1))
       IN Start(on_change(s3, s0.members[low]["a"], UserCb(1)))
  /\ last = Op("init", None, "", <<>>, <<>>, "")
  /\ steps = 0

\* keys that name no member: a name that is not bound, and the private
\* attribute _parent
BadKeys == {"z", "_parent"}

NextCodec ==
  \/ \E c \in Node :
       /\ kind[c] \in Composites
       /\ \E data \in DataFrom(Cur, c, 1) : DeserializeOp(c, data, "")
       /\ UNCHANGED steps
  \/ \E c \in Node, key \in BadKeys, v \in DataValues, first \in BOOLEAN :
       /\ kind[c] \in Composites
       /\ LET good == Dict(<<order[c][1]>>,
                           <<IF kind[members[c][order[c][1]]] \in Leaves
                               THEN Prim(v) ELSE Dict(<<>>, <<>>)>>)
              bad == Dict(<<key>>, <<Dict(<<>>, <<>>)>>)
              data == IF first
                        THEN Dict(bad.keys \o good.keys, bad.items \o good.items)
                        ELSE Dict(good.keys \o bad.keys, good.items \o bad.items)
          IN DeserializeOp(c, data, key)
       /\ UNCHANGED steps
  \/ enter_count[TreeMid] = 0 /\ EnterScope(TreeMid) /\ UNCHANGED steps
  \/ ExitScope(TreeMid) /\ UNCHANGED steps

SpecCodec == InitCodec /\ [][NextCodec]_vars

\* the leaves that data names, under the composite c
RECURSIVE NamedLeaves(_, _, _)
NamedLeaves(mem, c, data) ==
  UNION {LET m == mem[c][data.keys[i]] IN
         IF data.items[i].tag = "prim" THEN {m}
         ELSE NamedLeaves(mem, m, data.items[i]) : i \in 1..Len(data.keys)}
\* every leaf that data names holds the value data gives it
RECURSIVE Applied(_, _, _, _)
Applied(val, mem, c, data) ==
  \A i \in 1..Len(data.keys) :
    LET m == mem[c][data.keys[i]] IN
    IF data.items[i].tag = "prim" THEN val[m] = data.items[i].val
    ELSE Applied(val, mem, m, data.items[i])

\* C11: deserialize(data) with data whose keys all name members, of the
\* composite and of the composites below it, does not fail and leaves every
\* leaf that data names with the value data gives it and every other leaf
\* as it was; called outside a scope it invokes every callback of the
\* composite exactly once, after all the values are stored, whatever the
\* number of leaves and composites data names; no callback of a leaf is
\* invoked.
C11_Step ==
  (last'.op = "deserialize" /\ last'.name = "") =>
    LET c == last'.node
        data == last'.args
    IN /\ last'.err = ""
       /\ Applied(value', members, c, data)
       /\ \A n \in Node \ NamedLeaves(members, c, data) : value'[n] = value[n]
       /\ (enter_count[c] = 0 /\ active[c]) =>
            /\ EachOnce(log', callbacks[c], c)
            /\ \A k \in 1..Len(log') :
                 log'[k].node = c => Applied(log'[k].value, members, c, data)
       /\ \A k \in 1..Len(log') : kind[log'[k].node] \notin Leaves
       /\ active' = active
C11_DeserializeOnce == [][C11_Step]_vars

\* the root is deserialized with three leaves, all of them changed, and a
\* nested composite two levels down
C11_Witness ==
  /\ last.op = "deserialize" /\ last.node = TreeRoot /\ last.err = ""
  /\ Cardinality(NamedLeaves(members, TreeRoot, last.args)) = 3
  /\ value[members[TreeLow]["sum"]] # SumOf(value, members, TreeLow)
  /\ Proj(log) = <<<<1, TreeMid>>, <<1, TreeRoot>>, <<2, TreeRoot>>>>

\* C13: deserialize with a key that is not the name of a member fails, and
\* whether it fails or not, every composite has the members it had, bound
\* to the states they were bound to.
C13_Step ==
  last'.op = "deserialize" =>
    /\ last'.name # "" => last'.err # ""
    /\ members' = members /\ order' = order
C13_UnknownMember == [][C13_Step]_vars

\* ------------------------------------------------------------ round trip
\* Composites to serialize and deserialize: the tree of the fixture; a
\* composite with a leaf and a list of one leaf; a composite with a leaf and
\* an ObjectState, as test_serialize_with_unserializable makes it.
RoundShapes == {"tree", "list", "object"}
RoundInit(st, shape, v1, v2, v3) ==
  IF shape = "tree" THEN TreeInit(st, v1, v2, v3)
  ELSE
    LET root == NewNode(st)
        s1 == HigherSetAttrValue(HigherInit(st, root, "HigherOrderState"),
                                 root, "x", v1)
        n == NewNode(s1)
    IN IF shape = "object"
         THEN HigherSetAttr(BasicInit(s1, n, "ObjectState", v2), root, "obj", n)
         ELSE LET s2 == BasicInit(s1, n, "IntState", v2)
                  l == NewNode(s2)
              IN HigherSetAttr(ListInit(s2, l, <<n>>), root, "items", l)

InitRound ==
  /\ \E shape \in RoundShapes, v1 \in Values, v2 \in Values, v3 \in Values :
       /\ shape # "tree" => v3 = 0
       /\ Start(RoundInit(EmptyHeap, shape, v1, v2, v3))
  /\ last = Op("init", None, "", <<>>, <<>>, "")
  /\ steps = 0

NextRound ==
  \/ \E c \in Node : RoundTrip(c) /\ UNCHANGED steps
  \/ \E n \in Node, v \in Values : SetValue(n, v) /\ UNCHANGED steps
  \/ \E id \in {1, 2} : OnChange(TreeRoot, id) /\ UNCHANGED steps
  \/ enter_count[TreeRoot] = 0 /\ EnterScope(TreeRoot) /\ UNCHANGED steps
  \/ ExitScope(TreeRoot) /\ UNCHANGED steps

SpecRound == InitRound /\ [][NextRound]_vars

\* the states below a state, the state itself included
RECURSIVE Subtree(_, _, _)
Subtree(mem, lst, n) ==
  {n} \cup UNION {Subtree(mem, lst, mem[n][nm]) :
                    nm \in {k \in Names : mem[n][k] # None}}
      \cup UNION {Subtree(mem, lst, lst[n][i]) : i \in 1..Len(lst[n])}
KindsBelow(c) == {kind[n] : n \in Subtree(members, list, c)}

\* every callback of c was invoked at most once
AtMostOnce(lg, cbs, c) ==
  \A k \in 1..Len(cbs) :
    cbs[k].type = "user" =>
      Cardinality({j \in 1..Len(lg) : lg[j].node = c /\ lg[j].cb = cbs[k].id})
        <= 1

\* C12 as claimed: on a composite whose members all serialize (leaves of a
\* primitive, composites, lists of such states), deserialize(serialize())
\* does not fail, leaves every value as it was and invokes each callback of
\* the composite at most once.
C12_Original_Step ==
  (last'.op = "round_trip" /\ "ObjectState" \notin KindsBelow(last'.node)) =>
    /\ last'.err = ""
    /\ value' = value
    /\ AtMostOnce(log', callbacks[last'.node], last'.node)
C12_Original == [][C12_Original_Step]_vars

\* C12 as amended: on a composite whose members are leaves of a primitive
\* and composites of such members, with no list anywhere below it,
\* deserialize(serialize()) does not fail, leaves every value and every
\* binding as it was and invokes each callback of the composite at most
\* once (exactly once outside a scope); with a list of such leaves among
\* the members the call fails with NotImplementedError, and still no value
\* changes and no callback of the composite is invoked more than once.
C12_Step ==
  last'.op = "round_trip" =>
    LET c == last'.node IN
    /\ value' = value /\ members' = members /\ list' = list
    /\ AtMostOnce(log', callbacks[c], c)
    /\ ("ListState" \in KindsBelow(c) /\ "ObjectState" \notin KindsBelow(c)) =>
         last'.err = "NotImplementedError"
    /\ "ListState" \notin KindsBelow(c) =>
         /\ last'.err = ""
         /\ (enter_count[c] = 0 /\ active[c]) =>
              EachOnce(log', callbacks[c], c)
C12_RoundTrip == [][C12_Step]_vars

\* the whole tree went through serialize and deserialize with values that
\* are not all the same, and both callbacks of the root were invoked
C12_Witness ==
  /\ last.op = "round_trip" /\ last.node = TreeRoot /\ last.err = ""
  /\ members[TreeRoot]["inner"] # None
  /\ value[members[TreeMid]["y"]] # value[members[TreeLow]["a"]]
  /\ last.args = Dict(<<"inner">>, <<Dict(<<"y", "inner">>,
       <<Prim(value[members[TreeMid]["y"]]),
         Dict(<<"a", "b", "sum">>,
              <<Prim(value[members[TreeLow]["a"]]),
                Prim(value[members[TreeLow]["b"]]),
                Prim(value[members[TreeLow]["sum"]])>>)>>)>>)
  /\ Proj(log) = <<<<2, TreeRoot>>, <<1, TreeRoot>>>>

\* ------------------------------------------------------------------ list
\* Two leaves and a list that is made of some of them and then changed.  An
\* element is given to the list while it belongs to nobody.
ListElems == {1, 2}
ListNode == 3

\* the sequences without repetition of states that belong to nobody
Unowned(elems) ==
  /\ \A i \in 1..Len(elems) : elems[i] \in ListElems /\ parent[elems[i]] = None
  /\ \A i, j \in 1..Len(elems) : i # j => elems[i] # elems[j]
ElemSeqs == UNION {[1..k -> ListElems] : k \in 0..Cardinality(ListElems)}

InitList ==
  /\ \E v1 \in Values, v2 \in Values :
       Start(BasicInit(BasicInit(EmptyHeap, 1, "IntState", v1),
                       2, "IntState", v2))
  /\ last = Op("init", None, "", <<>>, <<>>, "")
  /\ steps = 0

NextList ==
  \/ \E elems \in ElemSeqs :
       /\ kind[ListNode] = "free" /\ Unowned(elems)
       /\ NewListState(elems) /\ UNCHANGED steps
  \/ \E id \in CallbackIds, ew \in BOOLEAN :
       ListStateOnChange(ListNode, id, ew) /\ UNCHANGED steps
  \/ \E e \in ListElems :
       Unowned(<<e>>) /\ ListStateAppend(ListNode, e) /\ UNCHANGED steps
  \/ \E e \in ListElems, i \in 0..Cardinality(ListElems) :
       /\ Unowned(<<e>>) /\ i <= Len(list[ListNode])
       /\ ListStateInsert(ListNode, i, e) /\ UNCHANGED steps
  \/ \E elems \in ElemSeqs :
       Unowned(elems) /\ ListStateExtend(ListNode, elems) /\ UNCHANGED steps
  \/ \E i \in 0..Cardinality(ListElems) :
       /\ i <= Len(list[ListNode])
       /\ ListStatePop(ListNode, i) /\ UNCHANGED steps
  \/ \E e \in ListElems : ListStateRemove(ListNode, e) /\ UNCHANGED steps
  \/ ListStateClear(ListNode) /\ UNCHANGED steps
  \/ ListStateReverse(ListNode) /\ UNCHANGED steps
  \/ ListStateSort(ListNode) /\ UNCHANGED steps
  \/ \E n \in ListElems, v \in Values : SetValue(n, v) /\ UNCHANGED steps

SpecList == InitList /\ [][NextList]_vars

\* how often a state stands in a sequence
Occurrences(seq, x) == Cardinality({i \in 1..Len(seq) : seq[i] = x})
IsPermutation(s1, s2) ==
  /\ Len(s1) = Len(s2)
  /\ \A i \in 1..Len(s1) : Occurrences(s1, s1[i]) = Occurrences(s2, s1[i])

\* C14: appending an element invokes callbacks only for the list itself,
\* those registered on the list, each once (the aggregate channel): no
\* callback is invoked for the element.  An assignment that changes the
\* value of an element of the list invokes exactly the callbacks registered
\* element-wise, each once, in registration order, each passed the list;
\* the list itself does not notify, so a callback registered without
\* element_wise is not invoked.
C14_Step ==
  LET l == ListNode IN
  /\ (last'.op = "append" /\ last'.err = "") =>
       /\ \A k \in 1..Len(log') : log'[k].node = l /\ log'[k].origin = l
       /\ EachOnce(log', callbacks[l], l)
  /\ (/\ last'.op = "set"
      /\ Occurrences(list[l], last'.node) = 1
      /\ value'[last'.node] # value[last'.node]) =>
       /\ Proj(log') = Expect(Listeners(elem_callbacks[l]), last'.node)
       /\ \A k \in 1..Len(log') : log'[k].node = l
       /\ Occurrences(emits', l) = 0
C14_IndependentChannels == [][C14_Step]_vars

\* callback 1 is registered on the list, callback 2 element-wise after it;
\* an element of the list changes and only callback 2 is invoked
C14_Witness ==
  /\ last.op = "set" /\ Occurrences(list[ListNode], last.node) = 1
  /\ last.old # last.args
  /\ Listeners(callbacks[ListNode]) = <<UserCb(1), UserCb(2)>>
  /\ elem_callbacks[ListNode] = <<UserCb(2)>>
  /\ Proj(log) = <<<<2, last.node>>>>

\* what a successful call has made of the list
ListResult(op, old, new, args, val) ==
  CASE op = "append" -> new = Append(old, args[1])
    [] op = "insert" -> /\ new[args[1] + 1] = args[2]
                        /\ RemoveAt(new, args[1] + 1) = old
    [] op = "remove" -> /\ Occurrences(old, args[1]) > 0
                        /\ new = RemoveFirst(old, args[1])
    [] op = "pop" -> new = RemoveAt(old, args[1] + 1) /\ Len(new) = Len(old) - 1
    [] op = "clear" -> new = <<>>
    [] op = "reverse" -> /\ Len(new) = Len(old)
                         /\ \A i \in 1..Len(old) : new[i] = old[Len(old) + 1 - i]
    [] op = "sort" -> /\ IsPermutation(old, new)
                      /\ \A i \in 1..(Len(new) - 1) : val[new[i]] <= val[new[i + 1]]
    [] op = "extend" -> new = old \o args

\* C15: a call of append, insert, remove, pop, clear, reverse or sort that
\* does not fail, made outside a scope, changes the list as the operation
\* says, makes the list notify exactly once and so invokes every callback of
\* the list exactly once, each reading the changed list; extend with N
\* elements likewise notifies once and not N times; the construction of a
\* list from N elements notifies once.  A call that fails (pop without such
\* an element, remove of a state that is not in the list) changes and
\* invokes nothing.
C15_Step ==
  LET l == ListNode
      op == last'.op
  IN
  /\ (/\ op \in {"append", "insert", "remove", "pop", "clear", "reverse",
                 "sort", "extend"}
      /\ last'.err = "" /\ enter_count[l] = 0 /\ active[l]) =>
       /\ ListResult(op, list[l], list'[l], last'.args, value)
       /\ Occurrences(emits', l) = 1
       /\ Len(log') = Len(callbacks[l])
       /\ EachOnce(log', callbacks[l], l)
       /\ \A k \in 1..Len(log') :
            /\ log'[k].origin = l
            /\ log'[k].list[l] = list'[l]
  /\ op = "new_list" =>
       /\ list'[l] = last'.args
       /\ emits' = <<l>>
       /\ log' = <<>>
  /\ (op \in {"pop", "remove"} /\ last'.err # "") =>
       UNCHANGED heap /\ log' = <<>> /\ emits' = <<>>
C15_OncePerCall == [][C15_Step]_vars

\* two elements are given to extend at once and two callbacks are invoked
\* once each
C15_Witness ==
  /\ last.op = "extend" /\ Len(last.args) = 2 /\ last.err = ""
  /\ Len(list[ListNode]) = 2
  /\ Len(log) = 2 /\ log[1].cb = 2 /\ log[2].cb = 1
  /\ emits = <<ListNode>>

\* ---------------------------------------------------------------- commit
\* The tree with its callbacks, on the root, on the composite in the middle
\* and on the leaves y and a; leaves are assigned, also inside a scope of
\* the composite in the middle.
NextCommit ==
  \/ \E n \in Node, v \in Values : SetValue(n, v) /\ UNCHANGED steps
  \/ enter_count[TreeMid] = 0 /\ EnterScope(TreeMid) /\ UNCHANGED steps
  \/ ExitScope(TreeMid) /\ UNCHANGED steps

SpecCommit == InitCodec /\ [][NextCommit]_vars

\* C16: an assignment to a leaf that is not stored (the value is the one
\* the leaf holds) invokes no callback; of an assignment that is stored,
\* every callback invoked, on the leaf or on a composite above it, reads the
\* new value of the leaf, and every callback invoked for a computed leaf
\* that changed with it reads the new value of that leaf too.
C16_Step ==
  last'.op = "set" =>
    LET n == last'.node
        v == last'.args[1]
    IN /\ value'[n] = v
       /\ v = value[n] => log' = <<>>
       /\ \A k \in 1..Len(log') :
            /\ log'[k].value[n] = v
            /\ log'[k].value[log'[k].origin] = value'[log'[k].origin]
C16_CommitBeforeNotify == [][C16_Step]_vars

\* a is assigned another value: its own callback, the callback of the
\* composite in the middle and both callbacks of the root are invoked for a
\* and read the new value
C16_Witness ==
  /\ last.op = "set" /\ last.node = members[TreeLow]["a"]
  /\ last.old # last.args
  /\ \E k \in 1..Len(log) : log[k].node = last.node
  /\ Cardinality(Reports(log, TreeRoot, 2, last.node)) = 1
  /\ Cardinality(Reports(log, TreeMid, 1, last.node)) = 1
  /\ \A k \in 1..Len(log) : log[k].value[last.node] = last.args[1]

\* --------------------------------------------------------------- handles
\* A list of one leaf; callbacks are registered on the list, for the list or
\* element-wise, and removed again, by the handle on_change returned or by
\* the callback itself.
InitHandles ==
  /\ \E v1 \in Values, v2 \in Values :
       Start(ListInit(BasicInit(BasicInit(EmptyHeap, 1, "IntState", v1),
                                2, "IntState", v2),
                      ListNode, <<1>>))
  /\ last = Op("init", None, "", <<>>, <<>>, "")
  /\ steps = 0

NextHandles ==
  \/ \E id \in CallbackIds, ew \in BOOLEAN :
       ListStateOnChange(ListNode, id, ew) /\ UNCHANGED steps
  \/ \E id \in CallbackIds :
       ListStateRemoveCallbackId(ListNode, id) /\ UNCHANGED steps
  \/ \E id \in CallbackIds :
       ListStateRemoveCallback(ListNode, id) /\ UNCHANGED steps
  \/ \E v \in Values : SetValue(1, v) /\ UNCHANGED steps
  \/ ListStateReverse(ListNode) /\ UNCHANGED steps

SpecHandles == InitHandles /\ [][NextHandles]_vars

\* C17: remove_callback, given the handle that on_change returned for a
\* callback or the callback itself, does not fail and removes that callback
\* and no other from the callbacks of the list and, when it was registered
\* element-wise, from the element-wise callbacks, whatever was registered
\* and removed before.
C17_Step ==
  last'.op = "remove_callback" =>
    LET l == last'.node
        cb == UserCb(last'.args[1])
    IN /\ last'.err = ""
       /\ IndexOf(callbacks[l], cb) # 0
       /\ callbacks'[l] = RemoveFirst(callbacks[l], cb)
       /\ elem_callbacks'[l] = RemoveFirst(elem_callbacks[l], cb)
C17_HandlesStayUsable == [][C17_Step]_vars

\* ------------------------------------------------------------- copy_from
\* Two composites of the same make, to copy one from the other: either two
\* composites that hold a DictState of one leaf, or two ExampleStates.  The
\* first of the two has two callbacks.
CopyShapes == {"nested", "computed"}
CopyNested(st, v) ==
  LET root == NewNode(st)
      s1 == HigherInit(st, root, "HigherOrderState")
      d == NewNode(s1)
  IN HigherSetAttr(DictInit(s1, d, <<"y">>, <<v>>), root, "inner", d)
CopyInit(st, shape, v1, v2, v3, v4) ==
  IF shape = "nested" THEN CopyNested(CopyNested(st, v1), v2)
  ELSE LET s1 == ExampleInit(st, NewNode(st), v1, v2)
       IN ExampleInit(s1, NewNode(s1), v3, v4)

InitCopy ==
  /\ \E shape \in CopyShapes, v1, v2, v3, v4 \in Values :
       /\ shape = "nested" => v3 = 0 /\ v4 = 0
       /\ Start(on_change(on_change(CopyInit(EmptyHeap, shape, v1, v2, v3, v4),
                                    TreeRoot, UserCb(1)),
                          TreeRoot, UserCb(2)))
  /\ last = Op("init", None, "", <<>>, <<>>, "")
  /\ steps = 0

NextCopy ==
  \/ \E c \in Node, other \in Node : CopyFrom(c, other) /\ UNCHANGED steps
  \/ \E n \in Node, v \in Values : SetValue(n, v) /\ UNCHANGED steps
  \/ enter_count[TreeRoot] = 0 /\ EnterScope(TreeRoot) /\ UNCHANGED steps
  \/ ExitScope(TreeRoot) /\ UNCHANGED steps

SpecCopy == InitCopy /\ [][NextCopy]_vars

\* other has a member for every member of c, of the same kind, and so on
\* below
RECURSIVE SameMake(_, _)
SameMake(c, o) ==
  /\ kind[c] = kind[o]
  /\ \A nm \in Names :
       members[c][nm] # None =>
         /\ members[o][nm] # None
         /\ SameMake(members[c][nm], members[o][nm])
\* every leaf below c holds the value val gives to its counterpart below o
RECURSIVE CopiedFrom(_, _, _, _)
CopiedFrom(new, val, c, o) ==
  \A nm \in Names :
    members[c][nm] # None =>
      LET m == members[c][nm]
          om == members[o][nm]
      IN IF kind[m] \in Leaves THEN new[m] = val[om]
         ELSE CopiedFrom(new, val, m, om)

\* C18: copy_from(other) with other of another class fails and changes and
\* invokes nothing.  With other of the class of self, holding a member of
\* the same kind for every member of self, it does not fail; every leaf
\* below self ends with the value its counterpart below other had, every
\* name is bound to the state it was bound to, and, called outside a scope,
\* every callback of self is invoked exactly once, reading the copied
\* values.
C18_Step ==
  last'.op = "copy_from" =>
    LET c == last'.node
        o == last'.args[1]
    IN /\ kind[c] # kind[o] =>
            /\ last'.err = "AssertionError"
            /\ UNCHANGED heap /\ log' = <<>> /\ emits' = <<>>
       /\ SameMake(c, o) =>
            /\ last'.err = ""
            /\ CopiedFrom(value', value, c, o)
            /\ members' = members /\ order' = order /\ parent' = parent
            /\ (enter_count[c] = 0 /\ active[c]) =>
                 /\ EachOnce(log', callbacks[c], c)
                 /\ \A k \in 1..Len(log') :
                      log'[k].node = c => CopiedFrom(log'[k].value, value, c, o)
SrcNode == 1
DerivedNode == 2
SrcValues == 0..(MaxVal + 1)

InitTransform ==
  /\ \E v \in SrcValues : Start(BasicInit(EmptyHeap, SrcNode, "IntState", v))
  /\ last = Op("init", None, "", <<>>, <<>>, "")
  /\ steps = 0

NextTransform ==
  \/ \E k \in Leaves :
       /\ kind[DerivedNode] = "free"
       /\ TransformOp(SrcNode, k) /\ UNCHANGED steps
  \/ \E v \in SrcValues : SetValue(SrcNode, v) /\ UNCHANGED steps
  \/ \E n \in {SrcNode, DerivedNode}, id \in CallbackIds :
       OnChange(n, id) /\ UNCHANGED steps
  \/ EnterScope(SrcNode) /\ UNCHANGED steps
  \/ ExitScope(SrcNode) /\ UNCHANGED steps

SpecTransform == InitTransform /\ [][NextTransform]_vars

\* an assignment that changes the source, outside a scope, the derived leaf
\* being there
SourceChange ==
  /\ last'.op = "set" /\ last'.node = SrcNode
  /\ value'[SrcNode] # value[SrcNode]
  /\ kind[DerivedNode] # "free"
  /\ enter_count[SrcNode] = 0

\* the derived leaf is made with the transform of the source and holds the
\* transform of the source whenever no scope of the source is open
InSync ==
  /\ last'.op = "transform" =>
       /\ last'.args[1] = DerivedNode
       /\ value'[DerivedNode] = self_to_other(value[SrcNode])
       /\ log' = <<>>
  /\ (kind'[DerivedNode] # "free" /\ enter_count'[SrcNode] = 0) =>
       value'[DerivedNode] = self_to_other(value'[SrcNode])

\* C19 as claimed: the derived leaf is in sync with the source; a change of
\* the source that changes the transform invokes every callback of the
\* derived leaf once, a change that leaves the transform as it is invokes
\* none.
C19_Original_Step ==
  /\ InSync
  /\ SourceChange =>
       IF self_to_other(value'[SrcNode]) # value[DerivedNode]
         THEN EachOnce(log', callbacks[DerivedNode], DerivedNode)
         ELSE LogOf(log', DerivedNode) = <<>>
C19_Original == [][C19_Original_Step]_vars

\* C19 as amended: the derived leaf is in sync with the source; a change of
\* the source that changes the transform invokes every callback of the
\* derived leaf once; a change that leaves the transform as it is invokes
\* none when the derived leaf verifies changes, and every callback once
\* when it does not (an ObjectState).
C19_Step ==
  /\ InSync
  /\ SourceChange =>
       IF /\ self_to_other(value'[SrcNode]) = value[DerivedNode]
          /\ verify_change[DerivedNode]
         THEN LogOf(log', DerivedNode) = <<>>
         ELSE EachOnce(log', callbacks[DerivedNode], DerivedNode)
C19_DerivedInSync == [][C19_Step]_vars

\* the source went from 1 to MaxVal + 1, the derived leaf from 0 to another
\* value, and its two callbacks were invoked
C19_Witness ==
  /\ last.op = "set" /\ last.node = SrcNode
  /\ last.old = <<1>> /\ last.args = <<MaxVal + 1>>
  /\ kind[DerivedNode] = "IntState"
  /\ value[DerivedNode] = self_to_other(MaxVal + 1) /\ value[DerivedNode] # 0
  /\ Proj(LogOf(log, DerivedNode)) = <<<<2, DerivedNode>>, <<1, DerivedNode>>>>

\* ------------------------------------------------- chains of computed members
\* A composite of one of the two classes with a computed member that
\* depends on a computed member; its members are bound one by one, in any
\* order, each to a new leaf or to a leaf that belongs to nobody.
ChainKinds == {"ChainState", "DoubleState"}
ChainNames == {"a", "b", "x"}

InitChain ==
  /\ \E k \in ChainKinds : Start(HigherInit(EmptyHeap, ExNode, k))
  /\ last = Op("init", None, "", <<>>, <<>>, "")
  /\ steps = 0

\* the names that can still be bound
Unbound == {name \in ChainNames : members[ExNode][name] = None}

\* A member is bound to a leaf that belongs to nobody; a name that is bound,
\* a computed one too, is assigned again (and the assignment fails).
NextChain ==
  \/ \E v \in Values :
       /\ Spare = {} /\ Unbound # {}
       /\ NewBasicState("IntState", v) /\ UNCHANGED steps
  \/ \E name \in Unbound, n \in Spare :
       BindState(ExNode, name, n) /\ UNCHANGED steps
  \/ \E name \in ChainNames \cup {"sum", "twice", "double"} :
       /\ members[ExNode][name] # None
       /\ BindValue(ExNode, name, 0)
       /\ UNCHANGED steps
  \/ \E v \in Values :
       /\ members[ExNode]["a"] # None
       /\ SetValue(members[ExNode]["a"], v)
       /\ UNCHANGED steps

SpecChain == InitChain /\ [][NextChain]_vars

\* how many of the callbacks cbs are cb
CountCb(cbs, cb) == Cardinality({k \in 1..Len(cbs) : cbs[k] = cb})
SeqRange(sq) == {sq[k] : k \in 1..Len(sq)}
\* the states bound to the parameters of the computed member `name` of c
ParamsBound(mem, knd, c, name) ==
  {mem[c][p] : p \in SeqRange(Params(knd[c], name))}

\* C20: a computed member, also one that depends on a computed member, is
\* activated at most once, in whichever order the members are bound: once
\* its name is bound it stays bound to the same state; it is bound exactly
\* when the names of all its parameters are bound; when it is bound, each
\* state bound to one of its parameters has exactly one recompute callback
\* of the member and no other state has one; when it is not bound, no state
\* has a recompute callback of the member.
C20_Step ==
  LET c == ExNode
      names == SeqRange(ComputedStates(kind[c]))
  IN
  \A name \in names :
    LET cb == UpdateCb(c, name)
        pb == ParamsBound(members', kind', c, name)
    IN
    /\ Activated(members, c, name) => members'[c][name] = members[c][name]
    /\ Activated(members', c, name) <=> None \notin pb
    /\ Activated(members', c, name) =>
         \A n \in Node :
           CountCb(callbacks'[n], cb) = IF n \in pb THEN 1 ELSE 0
    /\ ~Activated(members', c, name) =>
         \A n \in Node : CountCb(callbacks'[n], cb) = 0
C20_ActivatedOnce == [][C20_Step]_vars

\* one binding, of b after a, activated sum and, in the same assignment,
\* twice, which has its one recompute callback on sum
C20_Witness ==
  /\ kind[ExNode] = "ChainState"
  /\ last.op = "bind_state" /\ last.name = "b" /\ last.err = ""
  /\ Activated(members, ExNode, "sum") /\ Activated(members, ExNode, "twice")
  /\ value[members[ExNode]["twice"]] = 4 * MaxVal
  /\ CountCb(callbacks[members[ExNode]["sum"]], UpdateCb(ExNode, "twice")) = 1

\* -------------------------------------------------------------- ownership
\* Two leaves and two lists; any leaf is given to any list, also a leaf that
\* is in that list or in the other one already.  A list takes no more than
\* MaxLen elements.
MaxLen == 2
OtherList == 4
Lists == {ListNode, OtherList}

InitOwn ==
  /\ Start(ListInit(ListInit(BasicInit(BasicInit(EmptyHeap, 1, "IntState", 0),
                                       2, "IntState", 0),
                             ListNode, <<>>),
                    OtherList, <<>>))
  /\ last = Op("init", None, "", <<>>, <<>>, "")
  /\ steps = 0

HasRoom(l, k) == Len(list[l]) + k <= MaxLen

NextOwn ==
  \/ \E l \in Lists, e \in ListElems :
       HasRoom(l, 1) /\ ListStateAppend(l, e) /\ UNCHANGED steps
  \/ \E l \in Lists, e \in ListElems, i \in 0..MaxLen :
       /\ HasRoom(l, 1) /\ i <= Len(list[l])
       /\ ListStateInsert(l, i, e) /\ UNCHANGED steps
  \/ \E l \in Lists, elems \in ElemSeqs :
       HasRoom(l, Len(elems)) /\ ListStateExtend(l, elems) /\ UNCHANGED steps
  \/ \E l \in Lists, i \in 0..MaxLen :
       /\ i < Len(list[l])
       /\ ListStatePop(l, i) /\ UNCHANGED steps
  \/ \E l \in Lists, e \in ListElems :
       ListStateRemove(l, e) /\ UNCHANGED steps
  \/ \E l \in Lists : ListStateClear(l) /\ UNCHANGED steps

SpecOwn == InitOwn /\ [][NextOwn]_vars

Contains(l, n) == Occurrences(list[l], n) > 0

\* C21: a state that is in a list has the list as its parent and has the
\* element observer of the list among its callbacks; a state that is not in
\* the list does not have the list as its parent and has no element observer
\* of the list among its callbacks.
C21_Ownership ==
  \A l \in Lists, n \in ListElems :
    IF Contains(l, n)
      THEN parent[n] = l /\ CountCb(callbacks[n], ElemObsCb(l)) >= 1
      ELSE parent[n] # l /\ CountCb(callbacks[n], ElemObsCb(l)) = 0

\* ------------------------------------------------------------- FloatState
\* A FloatState with or without a precision; the values given to it are the
\* multiples of 10^-Digits up to MaxRaw, so that halves are among them.
MaxRaw == 25
Raws == 0..MaxRaw
Precisions == {NoPrecision} \cup 0..Digits
FloatNode == 1

InitFloat ==
  /\ Start(EmptyHeap)
  /\ last = Op("init", None, "", <<>>, <<>>, "")
  /\ steps = 0

NextFloat ==
  \/ \E v \in Raws, p \in Precisions :
       kind[FloatNode] = "free" /\ NewFloatState(v, p) /\ UNCHANGED steps
  \/ \E v \in Raws : FloatSetValue(FloatNode, v) /\ UNCHANGED steps
  \/ \E id \in CallbackIds : OnChange(FloatNode, id) /\ UNCHANGED steps

SpecFloat == InitFloat /\ [][NextFloat]_vars

Quantized(v, p) == p = NoPrecision \/ Round(v, p) = v

\* C22: the value a FloatState with a precision is constructed with is stored
\* rounded; an assignment of a value whose rounding is the stored value
\* leaves the stored value and invokes no callback, an assignment of a value
\* whose rounding is another value stores the rounding and invokes every
\* callback once; the stored value is its own rounding.
C22_Step ==
  LET n == FloatNode IN
  /\ (last'.op = "new_float" /\ last'.args[2] # NoPrecision) =>
       /\ value'[n] = Round(last'.args[1], last'.args[2])
       /\ log' = <<>>
  /\ (last'.op = "set_float" /\ precision[n] # NoPrecision) =>
       LET r == Round(last'.args[1], precision[n]) IN
       IF r = value[n]
         THEN value'[n] = value[n] /\ log' = <<>> /\ emits' = <<>>
         ELSE /\ value'[n] = r
              /\ EachOnce(log', callbacks[n], n)
              /\ \A k \in 1..Len(log') : log'[k].value[n] = r
  /\ kind'[n] = "FloatState" => Quantized(value'[n], precision'[n])
C22_RoundThenCompare == [][C22_Step]_vars

\* 2.5 is assigned to a FloatState of precision 0 that holds 2.0 (nothing
\* happens: the rounding of 2.5 is 2.0), after 1.5 was stored as 2.0
C22_Witness ==
  /\ last.op = "set_float" /\ last.args = <<25>> /\ last.old = <<20>>
  /\ precision[FloatNode] = 0
  /\ value[FloatNode] = 20 /\ log = <<>>
  /\ Len(callbacks[FloatNode]) = MaxCallbacks

\* ----------------------------------------------------------------- glitch
\* C23: when a callback of the composite is invoked because an assignment
\* changed a or b, the computed member sum, as the callback reads it, is f
\* of the values of a and b as the callback reads them.
C23_Step ==
  LET c == ExNode IN
  (/\ last'.op = "set"
   /\ Activated(members, c, "sum")
   /\ last'.node \in {members[c]["a"], members[c]["b"]}
   /\ value'[last'.node] # value[last'.node]) =>
    \A k \in 1..Len(log') :
      log'[k].node = c =>
        log'[k].value[members[c]["sum"]] = SumOf(log'[k].value, members, c)
C23_GlitchFree == [][C23_Step]_vars

\* ------------------------------------------------------ computed, at rest
\* C24: when no scope is open and every state has its notifications on
\* (every operation has returned), the value of every activated computed
\* member is f of the values of its parameters.
C24_ComputedConsistent ==
  Quiet =>
    \A c \in Node : \A name \in SeqRange(ComputedStates(kind[c])) :
      Activated(members, c, name) =>
        value[members[c][name]] =
          Func(name, ValuesOf(Cur, ParamNodes(Cur, c, name)))

====
